---- MODULE Spec2Model ----
(***************************************************************************)
(* A model of the TPAD extraction pipeline: the paginated search walk, the *)
(* per-parcel detail enrichment and its reconciliation (TpadClient.extract)*)
(* and the arms-length filter (filterRecords).                             *)
(*                                                                         *)
(* Conventions.                                                            *)
(*  - A calendar day is an integer; day 0 is a Sunday, so day % 7 is what  *)
(*    Date.getDay() returns.  A Date is [valid, ms]: ms since the UTC      *)
(*    midnight of day 0, or an Invalid Date (valid = FALSE).               *)
(*  - The process time zone is a whole number of hours tz, local = UTC+tz. *)
(*  - A date text is [kind, day]: "mdy" is M/D/YYYY, "iso" is YYYY-MM-DD,  *)
(*    "empty" is '' and "text" is any text that holds no date ("N/A").     *)
(*  - A price text is [kind, amount]: "currency" is "$250,000", "plain" is *)
(*    "250000", "empty" is '' and "text" is non-numeric text.              *)
(*  - A URL text is a tuple of the pieces it was concatenated from.        *)
(***************************************************************************)
EXTENDS Integers, Sequences, FiniteSets, TLC

VARIABLES
    tz,            \* the process time zone (hours east of UTC)
    dateRange,     \* the DateRange of the run
    config,        \* the ExtractorConfig
    \* ---- filterRecords
    fpc,           \* "ready" | "done"
    fInput,        \* the records handed to filterRecords
    fResult,       \* what filterRecords returned
    \* ---- TpadClient.extract
    pc,            \* position of extract
    site,          \* the remote site: result pages, cursor
    attempt,       \* withRetry's attempt counter of the step in progress
    allResults,    \* extract's allResults
    parcelUrls,    \* extract's parcelUrls, a Map in insertion order
    pageNum,       \* extract's pageNum
    hasMore,       \* the last answer of hasNextPage
    batchStart,    \* i of the batch loop
    fetch,         \* the promises of the current batch, by position
    parcelDetails, \* extract's parcelDetails
    enrichedRecords, \* extract's enrichedRecords
    result,        \* what extract returned, or NoResult
    log,           \* what extract did to the site, in order
    \* ---- the rate limiter createRateLimiter returns
    now,           \* Date.now(), in ticks
    lastCall,      \* the closure's lastCall
    callers,       \* the calls of the current batch, by position
    releases,      \* the instants at which calls returned, in order
    \* ---- withRetry
    rpc,           \* "call" | "sleep" | "returned" | "thrown"
    rOpts,         \* the options: maxRetries, isRetryable
    rAttempt,      \* the loop counter
    rLog,          \* the calls of fn and the sleeps, in order
    rResult,       \* what withRetry returned or threw
    \* ---- the dedup passes
    dpc,           \* "ready" | "done" | "again"
    dInput,        \* the list handed to a dedup pass, and which pass
    dOutput,       \* what the pass returned
    dTwice,        \* what the pass returned for its own output
    \* ---- run, the CLI action
    runPc,         \* position of run
    runOpts,       \* the CLI options and what the configuration holds
    runData,       \* run's locals: the stage outputs, the pending error
    effects,       \* what run did, in order
    exitCode,      \* "running" | 0 | 1
    \* ---- a call of one pure function
    callPc,        \* "idle" | "ready" | "done"
    callArg,       \* the argument
    callResult     \* what the call returned, or that it threw

filterVars == <<fpc, fInput, fResult>>
extractVars == <<pc, site, attempt, allResults, parcelUrls, pageNum, hasMore,
                 batchStart, fetch, parcelDetails, enrichedRecords, result, log>>
limiterVars == <<now, lastCall, callers, releases>>
retryVars == <<rpc, rOpts, rAttempt, rLog, rResult>>
dedupeVars == <<dpc, dInput, dOutput, dTwice>>
runVars == <<runPc, runOpts, runData, effects, exitCode>>
callVars == <<callPc, callArg, callResult>>
sideVars == <<limiterVars, retryVars, dedupeVars, runVars, callVars>>
vars == <<tz, dateRange, config, filterVars, extractVars, sideVars>>

-----------------------------------------------------------------------------
(* Bounds of the model *)

MaxRecords == 2     \* records handed to filterRecords
MaxPages == 2       \* result pages of the site
MaxSales == 1       \* sale rows on a detail page
MaxPageNum == 3     \* cap on pageNum (a failed advance re-reads a page)
MaxBatches == 3     \* cap on the batches of one extraction

(* Time *)

MsPerHour == 60 * 60 * 1000
MsPerDay == 24 * MsPerHour

TimeZones == {0 - 6, 0, 2}

\* The Monday the modelled week starts on: the first one after day 0, which
\* is a Sunday.
RangeMonday == CHOOSE d \in 1..7 : d % 7 = 1

InvalidDate == [valid |-> FALSE, ms |-> 0]
DateAt(ms) == [valid |-> TRUE, ms |-> ms]

\* Local midnight of a calendar day, as an instant.
LocalMidnight(day, zone) == day * MsPerDay - zone * MsPerHour

\* a >= b and a <= b on Dates: every comparison with an Invalid Date is false.
DateGE(a, b) == a.valid /\ b.valid /\ a.ms >= b.ms
DateLE(a, b) == a.valid /\ b.valid /\ a.ms <= b.ms

DateText(kind, day) == [kind |-> kind, day |-> day]
EmptyDate == DateText("empty", 0)
GarbageDate == DateText("text", 0)

\* JavaScript truthiness of a string: '' is falsy.
TruthyDate(d) == d.kind # "empty"

-----------------------------------------------------------------------------
(* utils/date-range *)

\* parseDate: split on '-', Number() each part, new Date(y, m - 1, d) in
\* local time.  Text that holds no numbers gives an Invalid Date.
parseDate(dateStr, zone) ==
    IF dateStr.kind = "iso"
    THEN DateAt(LocalMidnight(dateStr.day, zone))
    ELSE InvalidDate

\* The local calendar day an instant falls on.
LocalDay(date, zone) == (date.ms + zone * MsPerHour) \div MsPerDay

\* date.getDay(): 0 is Sunday; NaN on an Invalid Date.  NaN is kept as a
\* number that equals no weekday.
NotANumber == 0 - 1
getDay(date, zone) ==
    IF date.valid THEN LocalDay(date, zone) % 7 ELSE NotANumber

\* d.setDate(d.getDate() + days): the same local time, days later.
AddDays(date, days) == DateAt(date.ms + days * MsPerDay)

\* d.setHours(0, 0, 0, 0) and d.setHours(23, 59, 59, 999)
StartOfDay(date, zone) == DateAt(LocalMidnight(LocalDay(date, zone), zone))
EndOfDay(date, zone) ==
    DateAt(LocalMidnight(LocalDay(date, zone), zone) + MsPerDay - 1)

\* formatDate: the local calendar day as YYYY-MM-DD
formatDate(date, zone) == DateText("iso", LocalDay(date, zone))

\* const diff = day === 0 ? -6 : 1 - day
MondayDiffSundayAhead(day) == 1 - day

MondayDiff(day) == IF day = 0 THEN 0 - 6 ELSE 1 - day

getMonday(date, zone) ==
    StartOfDay(AddDays(date, MondayDiff(getDay(date, zone))), zone)

WeekLabel(monday, zone) == <<"Week of", formatDate(monday, zone)>>

getPreviousWeekRange(referenceDate, zone) ==
    LET currentMonday == getMonday(referenceDate, zone)
        previousMonday == AddDays(currentMonday, 0 - 7)
        previousSunday == EndOfDay(AddDays(previousMonday, 6), zone)
    IN [start |-> previousMonday, end |-> previousSunday,
        label |-> WeekLabel(previousMonday, zone)]

Thrown(message) == [threw |-> TRUE, message |-> message]
IsThrown(outcome) == "threw" \in DOMAIN outcome

\* getWeekRangeFromMonday: the text is parsed in local time; a date that is
\* not a Monday, or no date, throws.
getWeekRangeFromMonday(mondayStr, zone) ==
    LET monday == parseDate(mondayStr, zone)
    IN IF getDay(monday, zone) # 1
       THEN Thrown(<<"Date", mondayStr, "is not a Monday">>)
       ELSE [start |-> monday,
             end |-> EndOfDay(AddDays(monday, 6), zone),
             label |-> WeekLabel(monday, zone)]

isDateInRange(dateStr, range, zone) ==
    LET d == parseDate(dateStr, zone)
    IN DateGE(d, range.start) /\ DateLE(d, range.end)

-----------------------------------------------------------------------------
(* scraper/parcel-details: the parsers *)

PriceText(kind, amount) == [kind |-> kind, amount |-> amount]
EmptyPrice == PriceText("empty", 0)

\* parseSalePrice: '' is 0; strip $ , and spaces; parseFloat; NaN is 0.
parseSalePrice(priceStr) ==
    IF priceStr.kind = "empty" THEN 0
    ELSE IF priceStr.kind = "text" THEN 0
    ELSE priceStr.amount

\* parseSaleDate: '' stays ''; M/D/YYYY becomes zero-padded YYYY-MM-DD; an
\* ISO date and anything else is returned as it came.
parseSaleDate(dateStr) ==
    IF dateStr.kind = "empty" THEN EmptyDate
    ELSE IF dateStr.kind = "mdy" THEN DateText("iso", dateStr.day)
    ELSE dateStr

\* new Date(isoString): a date-only ISO string is UTC midnight of that day;
\* text that is no date is an Invalid Date.
NewDateFromString(isoStr) ==
    IF isoStr.kind = "iso" THEN DateAt(isoStr.day * MsPerDay) ELSE InvalidDate

isSaleInDateRange(saleDateStr, startDate, endDate) ==
    LET isoDate == parseSaleDate(saleDateStr)
    IN IF ~TruthyDate(isoDate) THEN FALSE
       ELSE LET saleDate == NewDateFromString(isoDate)
            IN DateGE(saleDate, startDate) /\ DateLE(saleDate, endDate)

-----------------------------------------------------------------------------
(* Texts: toLowerCase, trim and includes on the texts the model uses *)

ToLowerCase(s) ==
    CASE s = "Warranty Deed" -> "warranty deed"
      [] s = "Quitclaim Deed" -> "quitclaim deed"
      [] s = "Quitclaim" -> "quitclaim"
      [] s = "Deed of Trust" -> "deed of trust"
      [] s = "Release" -> "release"
      [] s = "Correction" -> "correction"
      [] s = "Trustee" -> "trustee"
      [] s = "Executor" -> "executor"
      [] s = "Sheriff" -> "sheriff"
      [] s = "Tax Deed" -> "tax deed"
      [] s = "Affidavit" -> "affidavit"
      [] s = "Residential" -> "residential"
      [] s = "Commercial" -> "commercial"
      [] s = "00 - Residential" -> "00 - residential"
      [] s = "Y" -> "y"
      [] s = "N" -> "n"
      [] s = " No " -> " no "
      [] s = "page.goto: Timeout 30000ms exceeded." ->
            "page.goto: timeout 30000ms exceeded."
      [] s = "read ECONNRESET" -> "read econnreset"
      [] s = "Cannot read properties of null" ->
            "cannot read properties of null"
      [] s = "net::ERR_NETWORK_CHANGED" -> "net::err_network_changed"
      [] s = "Protocol error: Target closed." ->
            "protocol error: target closed."
      [] s = "Request timed out" -> "request timed out"
      [] s = "Unexpected token < in JSON" -> "unexpected token < in json"
      [] s = "ECONNRESET" -> "econnreset"
      [] s = "ECONNREFUSED" -> "econnrefused"
      [] s = "ETIMEDOUT" -> "etimedout"
      [] s = "Navigation timeout" -> "navigation timeout"
      [] s = "Target closed" -> "target closed"
      [] s = "Page closed" -> "page closed"
      [] OTHER -> s

Trim(s) ==
    CASE s = " no " -> "no"
      [] s = " No " -> "No"
      [] OTHER -> s

\* hay.includes(needle), for lower-cased hay and needle
Includes(hay, needle) ==
    \/ needle = ""
    \/ hay = needle
    \/ <<hay, needle>> \in
         {<<"quitclaim deed", "quitclaim">>,
          <<"00 - residential", "residential">>,
          <<"page.goto: timeout 30000ms exceeded.", "timeout">>,
          <<"read econnreset", "econnreset">>,
          <<"net::err_network_changed", "network">>,
          <<"protocol error: target closed.", "target closed">>}

SeqRange(s) == {s[i] : i \in 1..Len(s)}

-----------------------------------------------------------------------------
(* config *)

DefaultMinSalePrice == 100000
DefaultConcurrency == 3

DEFAULT_INSTRUMENT_DENYLIST ==
    <<"Quitclaim", "Deed of Trust", "Release", "Correction", "Trustee",
      "Executor", "Sheriff", "Tax Deed", "Affidavit">>

\* loadConfig, given what CONCURRENCY parses to.
loadConfigWith(concurrency) ==
    [concurrency |-> concurrency,
     minSalePrice |-> DefaultMinSalePrice,
     instrumentDenylist |-> DEFAULT_INSTRUMENT_DENYLIST,
     sendgridApiKey |-> "SG.key",
     emailTo |-> "reports@example.com"]

loadConfig == loadConfigWith(DefaultConcurrency)

\* Configurations validateConfig has nothing to say against: one fetch at a
\* time, and the default.
Configs == {loadConfigWith(c) : c \in {1, DefaultConcurrency}}

\* validateConfig: the error messages, in order.
validateConfig(cfg, requireEmail) ==
    (IF requireEmail /\ cfg.sendgridApiKey = ""
     THEN <<"SENDGRID_API_KEY is required for email delivery">> ELSE <<>>)
    \o (IF requireEmail /\ cfg.emailTo = ""
        THEN <<"EMAIL_TO is required for email delivery">> ELSE <<>>)
    \o (IF cfg.concurrency < 1 \/ cfg.concurrency > 10
        THEN <<"CONCURRENCY must be between 1 and 10">> ELSE <<>>)
    \o (IF cfg.minSalePrice < 0
        THEN <<"MIN_SALE_PRICE must be non-negative">> ELSE <<>>)

-----------------------------------------------------------------------------
(* processors/filter *)

NoReason == "null"

ReasonNames == {"lowSalePrice", "deniedInstrument", "outsideDateRange",
                "nonResidential", "qualifiedSaleFailed", "other"}

isDeniedInstrument(instrument, denylist) ==
    IF instrument = "" THEN FALSE
    ELSE LET normalized == Trim(ToLowerCase(instrument))
         IN \E denied \in SeqRange(denylist) :
                Includes(normalized, ToLowerCase(denied))

isResidential(record) ==
    LET classification == Trim(record.classification)
        landUse == ToLowerCase(record.land_use)
        residentialTerms == {"residential", "single family", "sfr", "duplex",
                             "townhouse", "condo"}
    IN \/ classification = "00"
       \/ Includes(ToLowerCase(classification), "residential")
       \/ \E term \in residentialTerms : Includes(landUse, term)

\* The five checks of the loop body, each given the reason so far.
DateCheck(record, range, zone) ==
    LET saleDate == parseSaleDate(record.sale_date)
    IN IF TruthyDate(saleDate) /\ ~isDateInRange(saleDate, range, zone)
       THEN "outsideDateRange" ELSE NoReason

ResidentialCheckNoGuard(reason, record) ==
    IF ~isResidential(record) THEN "nonResidential" ELSE reason

ResidentialCheck(reason, record) ==
    IF reason = NoReason /\ ~isResidential(record)
    THEN "nonResidential" ELSE reason

\* The price compared only when the record has one.
PriceCheckSkipsBlank(reason, record, cfg) ==
    LET price == parseSalePrice(record.sale_price)
    IN IF reason = NoReason /\ record.sale_price # EmptyPrice
          /\ price < cfg.minSalePrice
       THEN "lowSalePrice" ELSE reason

PriceCheck(reason, record, cfg) ==
    LET price == parseSalePrice(record.sale_price)
    IN IF reason = NoReason /\ price < cfg.minSalePrice
       THEN "lowSalePrice" ELSE reason

InstrumentCheck(reason, record, cfg) ==
    IF reason = NoReason
       /\ isDeniedInstrument(record.deed_instrument, cfg.instrumentDenylist)
    THEN "deniedInstrument" ELSE reason

QualifiedCheck(reason, record) ==
    IF reason = NoReason /\ record.qualified_sale # ""
    THEN LET qualified == Trim(ToLowerCase(record.qualified_sale))
         IN IF qualified \in {"n", "no", "false", "0"}
            THEN "qualifiedSaleFailed" ELSE reason
    ELSE reason

\* reason at the end of one iteration of the loop
RecordReason(record, cfg, range, zone) ==
    QualifiedCheck(
        InstrumentCheck(
            PriceCheck(
                ResidentialCheck(DateCheck(record, range, zone), record),
                record, cfg),
            record, cfg),
        record)

EmptyFilterResult ==
    [passed |-> <<>>, filtered |-> <<>>,
     reasons |-> [k \in ReasonNames |-> 0]]

\* if (reason) { filtered.push; reasons[reason]++ } else { passed.push }
FilterPushNoCount(acc, record, reason) ==
    IF reason # NoReason
    THEN [acc EXCEPT !.filtered = Append(@, record)]
    ELSE [acc EXCEPT !.passed = Append(@, record)]

FilterPush(acc, record, reason) ==
    IF reason # NoReason
    THEN [acc EXCEPT !.filtered = Append(@, record),
                     !.reasons[reason] = @ + 1]
    ELSE [acc EXCEPT !.passed = Append(@, record)]

RECURSIVE FilterLoop(_, _, _, _, _, _)
FilterLoop(records, i, acc, cfg, range, zone) ==
    IF i > Len(records) THEN acc
    ELSE FilterLoop(records, i + 1,
                    FilterPush(acc, records[i],
                               RecordReason(records[i], cfg, range, zone)),
                    cfg, range, zone)

filterRecords(records, cfg, range, zone) ==
    FilterLoop(records, 1, EmptyFilterResult, cfg, range, zone)

-----------------------------------------------------------------------------
(* Records *)

\* A RawParcelRecord from f = <<parcel_id, owner_name, property_address, city,
\* zip, classification, land_use, sale_date, sale_price, deed_instrument,
\* qualified_sale, source_url>>; acreage and assessed_value are always ''.
RawRecord(f) ==
    [parcel_id |-> f[1], owner_name |-> f[2],
     property_address |-> f[3], city |-> f[4], zip |-> f[5],
     classification |-> f[6], land_use |-> f[7],
     acreage |-> "", assessed_value |-> "",
     sale_date |-> f[8], sale_price |-> f[9],
     deed_instrument |-> f[10], qualified_sale |-> f[11],
     source_url |-> f[12]]

\* The record the filter tests build, with the fields the predicates read
\* overridden.
MockRecord(saleDate, classification, landUse, salePrice, instrument, qualified) ==
    RawRecord(<<"123-456", "John Doe", "123 Main St", "Covington", "38019",
                classification, landUse, saleDate, salePrice, instrument,
                qualified, <<"https://example.com/parcel/123-456">>>>)

MidWeek == DateText("mdy", RangeMonday + 2)
BeforeRange == DateText("iso", RangeMonday - 1)
OnStart == DateText("mdy", RangeMonday)
OnEnd == DateText("iso", RangeMonday + 6)
AfterRange == DateText("mdy", RangeMonday + 7)

HighPrice == PriceText("currency", 250000)
LowPrice == PriceText("currency", 500)

\* Every combination of passing and failing each of the five predicates, the
\* dates at and around the ends of the range, with and without a date, and a
\* list-row stub (blank price, instrument and qualification).
FilterUniverse ==
    {MockRecord(d, c[1], c[2], p, i, q) :
        d \in {MidWeek, BeforeRange},
        c \in {<<"00", "Residential">>, <<"02", "Commercial">>},
        p \in {HighPrice, LowPrice},
        i \in {"Warranty Deed", "Quitclaim Deed"},
        q \in {"Y", "N"}}
    \cup {MockRecord(d, "00", "Residential", HighPrice, "Warranty Deed", "Y") :
            d \in {OnStart, OnEnd, AfterRange, EmptyDate, GarbageDate}}
    \cup {MockRecord(EmptyDate, "02", "Commercial", HighPrice, "Warranty Deed",
                     " No "),
          MockRecord(MidWeek, "00", "00", EmptyPrice, "", "")}

FilterInputs ==
    UNION {[1..n -> FilterUniverse] : n \in 0..MaxRecords}

-----------------------------------------------------------------------------
(* utils/retry *)

DefaultMaxRetries == 3

NetworkErrors == {"page.goto: Timeout 30000ms exceeded.", "read ECONNRESET"}
OtherErrors == {"Cannot read properties of null"}
Errors == NetworkErrors \cup OtherErrors

retryableMessages ==
    <<"timeout", "ECONNRESET", "ECONNREFUSED", "ETIMEDOUT", "socket hang up",
      "network", "Navigation timeout", "Target closed", "Page closed">>

isNetworkRetryable(error) ==
    LET message == ToLowerCase(error)
    IN \E m \in SeqRange(retryableMessages) : Includes(message, ToLowerCase(m))

\* What withRetry does after a call of fn that threw `error` on attempt
\* `attemptNo` (from 0): "throw" when the budget is used up or the error is
\* not retryable, else "retry" (sleep, then the next attempt).
\* `isRetryable` of the options: "none" when the caller gave none,
\* "network" for isNetworkRetryable.
withRetryCatchLateBreak(attemptNo, maxRetries, isRetryable, error) ==
    IF attemptNo > maxRetries THEN "throw"
    ELSE IF isRetryable = "network" /\ ~isNetworkRetryable(error) THEN "throw"
    ELSE "retry"

withRetryCatchAlways(attemptNo, maxRetries, isRetryable, error) ==
    IF attemptNo >= maxRetries THEN "throw" ELSE "retry"

withRetryCatch(attemptNo, maxRetries, isRetryable, error) ==
    IF attemptNo >= maxRetries THEN "throw"
    ELSE IF isRetryable = "network" /\ ~isNetworkRetryable(error) THEN "throw"
    ELSE "retry"

withRetryOnError(attemptNo, maxRetries, error) ==
    withRetryCatch(attemptNo, maxRetries, "network", error)

-----------------------------------------------------------------------------
(* scraper/search *)

TPAD_BASE_URL == "https://assessment.cot.tn.gov/TPAD"

RelativeViewUrl == "./Parcel/P1"
AbsoluteViewUrl == "https://assessment.cot.tn.gov/TPAD/Parcel/P2"

\* text.startsWith('http')
StartsWithHttp(text) == text \in {TPAD_BASE_URL, AbsoluteViewUrl}

\* text.replace('./', '/'): the first "./" becomes "/"
ReplaceDotSlash(text) ==
    IF text = RelativeViewUrl THEN "/Parcel/P1" ELSE text

\* text.replace(/\s+/g, ' ').trim()
CollapseSpaces(text) ==
    CASE text = "MAIN ST  12" -> "MAIN ST 12"
      [] text = " OAK AVE 7 " -> "OAK AVE 7"
      [] OTHER -> text

\* A SearchResultRow, with the cells extract reads.
ResultRow(viewUrl, owner, address, parcelId, classification, saleDate) ==
    [viewUrl |-> viewUrl, owner |-> owner, propertyAddress |-> address,
     parcelId |-> parcelId, classification |-> classification,
     saleDate |-> saleDate]

searchResultToRawRecord(row, countyCode) ==
    RawRecord(<<row.parcelId, row.owner, CollapseSpaces(row.propertyAddress),
                "COVINGTON", "", row.classification, row.classification,
                row.saleDate, EmptyPrice, "", "",
                IF row.viewUrl # ""
                THEN <<TPAD_BASE_URL, ReplaceDotSlash(row.viewUrl)>>
                ELSE <<>> >>)

\* hasResults: some row of the results table is a data row.  The rows of the
\* model are data rows; a search without results shows a page with none.
hasResults(s) == Len(s.pages[s.cursor]) > 0

\* The next button of the page the cursor is on: DataTables disables it, or
\* leaves it out, on the last page.
NextButtons(s) ==
    IF s.cursor < Len(s.pages) THEN {"enabled"} ELSE {"disabled", "absent"}

hasNextPageIgnoringDisabled(button) == button # "absent"

hasNextPage(button) ==
    IF button = "absent" THEN FALSE ELSE button # "disabled"

\* goToNextPage: false when hasNextPage says no or no enabled button is
\* found; else the click, whose error is caught and answered with false.
goToNextPage(button, clickOk) ==
    IF ~hasNextPage(button) THEN FALSE
    ELSE IF button # "enabled" THEN FALSE
    ELSE clickOk

-----------------------------------------------------------------------------
(* scraper/parcel-details *)

SaleRecord(saleDate, salePrice, instrument, qualified, bookPage) ==
    [sale_date |-> saleDate, sale_price |-> salePrice,
     book_page |-> bookPage, grantor |-> "", grantee |-> "",
     deed_instrument |-> instrument, qualified_sale |-> qualified]

\* extractParcelDetails when the page loads: what the owner card and the
\* general information card of the modelled site show, and the sales read
\* from the sales table.  The URL handed in already starts with http.
extractParcelDetails(parcelUrl, parcelId, sales) ==
    [parcel_id |-> parcelId,
     owner_name |-> "SMITH JOHN A",
     owner_mailing_address |-> "PO BOX 1, BRIGHTON TN 38011",
     property_address |-> "12 MAIN ST",
     city |-> "BRIGHTON",
     zip |-> "38011",
     classification |-> "00 - Residential",
     land_use |-> "00 - Residential",
     sales |-> sales,
     source_url |-> IF parcelUrl # <<>> /\ StartsWithHttp(parcelUrl[1])
                    THEN parcelUrl
                    ELSE <<TPAD_BASE_URL>> \o parcelUrl]

parcelDetailsToRawRecord(details, sale) ==
    RawRecord(<<details.parcel_id, details.owner_name,
                details.property_address, details.city, details.zip,
                details.classification, details.land_use,
                sale.sale_date, sale.sale_price, sale.deed_instrument,
                sale.qualified_sale, details.source_url>>)

-----------------------------------------------------------------------------
(* scraper/tpad-client: TpadClient.extract *)

NavigateMaxRetries == 3
DetailMaxRetries == 2

\* parcelUrls.set(key, value) on a Map kept as its entries in insertion order
MapSet(entries, key, value) ==
    IF \E i \in 1..Len(entries) : entries[i][1] = key
    THEN [i \in 1..Len(entries) |->
            IF entries[i][1] = key THEN <<key, value>> ELSE entries[i]]
    ELSE Append(entries, <<key, value>>)

\* The body of `for (const result of pageResults)`, from row i on.
RECURSIVE CollectRows(_, _, _, _)
CollectRows(rows, i, all, urls) ==
    IF i > Len(rows) THEN [allResults |-> all, parcelUrls |-> urls]
    ELSE LET row == rows[i]
             record == searchResultToRawRecord(row, "084")
             fullUrl == IF StartsWithHttp(row.viewUrl)
                        THEN <<row.viewUrl>>
                        ELSE <<TPAD_BASE_URL, ReplaceDotSlash(row.viewUrl)>>
         IN CollectRows(rows, i + 1, Append(all, record),
                        IF row.viewUrl # ""
                        THEN MapSet(urls, row.parcelId, fullUrl)
                        ELSE urls)

\* Where extract goes after hasResults answered.
AfterHasResultsNoReturn(hasAnyResults) == "extractPage"

AfterHasResults(hasAnyResults) ==
    IF ~hasAnyResults THEN "returned" ELSE "extractPage"

EmptyExtraction ==
    [rawRecords |-> <<>>, parcelDetails |-> <<>>, totalParcels |-> 0,
     totalPages |-> 0]

\* parcelEntries.slice(i, i + concurrency)
BatchSliceRest(entries, i, concurrency) ==
    SubSeq(entries, i + 1, Len(entries))

\* Array.prototype.slice(start, end): an index below zero counts from the
\* end of the array, and both are clamped to 0..length.
SliceIndex(index, length) ==
    IF index < 0 THEN (IF length + index < 0 THEN 0 ELSE length + index)
    ELSE IF index > length THEN length
    ELSE index

Slice(entries, start, end) ==
    SubSeq(entries, SliceIndex(start, Len(entries)) + 1,
           SliceIndex(end, Len(entries)))

\* parcelEntries.slice(i, i + this.config.concurrency)
BatchSlice(entries, i, concurrency) == Slice(entries, i, i + concurrency)

\* allResults.find(r => r.parcel_id === parcelId): its index, 0 when none
FindOriginal(all, parcelId) ==
    IF \E i \in 1..Len(all) : all[i].parcel_id = parcelId
    THEN CHOOSE i \in 1..Len(all) :
            /\ all[i].parcel_id = parcelId
            /\ \A k \in 1..(i - 1) : all[k].parcel_id # parcelId
    ELSE 0

\* `for (const sale of details.sales)`, from sale i on
RECURSIVE EnrichFromSales(_, _, _, _)
EnrichFromSales(details, i, range, enriched) ==
    IF i > Len(details.sales) THEN enriched
    ELSE EnrichFromSales(details, i + 1, range,
            IF isSaleInDateRange(details.sales[i].sale_date, range.start, range.end)
            THEN Append(enriched, parcelDetailsToRawRecord(details, details.sales[i]))
            ELSE enriched)

\* The fallback when the detail page lists no sales.
NoSalesFallbackKeepUrl(enriched, all, parcelId, details) ==
    LET k == FindOriginal(all, parcelId)
    IN IF k = 0 THEN enriched ELSE Append(enriched, all[k])

NoSalesFallback(enriched, all, parcelId, details) ==
    LET k == FindOriginal(all, parcelId)
    IN IF k = 0 THEN enriched
       ELSE Append(enriched, [all[k] EXCEPT !.source_url = details.source_url])

\* The fallback when the fetch failed.
FailedFallback(enriched, all, parcelId) ==
    LET k == FindOriginal(all, parcelId)
    IN IF k = 0 THEN enriched ELSE Append(enriched, all[k])

\* One iteration of `for (let j = 0; j < batchResults.length; j++)`.
\* acc is [parcelDetails, enrichedRecords]; promise is a settled promise.
ReconcileOne(acc, promise, all, range) ==
    IF promise.status = "fulfilled"
    THEN LET details == promise.value
         IN [parcelDetails |-> Append(acc.parcelDetails, details),
             enrichedRecords |->
                IF Len(details.sales) > 0
                THEN EnrichFromSales(details, 1, range, acc.enrichedRecords)
                ELSE NoSalesFallback(acc.enrichedRecords, all,
                                     promise.parcelId, details)]
    ELSE [acc EXCEPT !.enrichedRecords =
                FailedFallback(@, all, promise.parcelId)]

RECURSIVE ReconcileBatchFrom(_, _, _, _, _)
ReconcileBatchFrom(promises, j, acc, all, range) ==
    IF j > Len(promises) THEN acc
    ELSE ReconcileBatchFrom(promises, j + 1,
                            ReconcileOne(acc, promises[j], all, range),
                            all, range)

\* The ids of the last n fetches that settled, in the order they settled.
LastSettled(events, n) ==
    LET IsSettled(entry) == entry[1] = "settled"
        settled == SelectSeq(events, IsSettled)
    IN [k \in 1..n |-> settled[Len(settled) - n + k][2]]

\* The settled promises in the order in which they settled.
BatchResultsByArrival(promises, events) ==
    LET ids == LastSettled(events, Len(promises))
    IN [k \in 1..Len(promises) |->
          promises[CHOOSE j \in 1..Len(promises) : promises[j].parcelId = ids[k]]]

\* await Promise.allSettled(batchPromises): the results come in the order
\* of the promises handed in, whatever the order in which they settled.
BatchResults(promises, events) == promises

\* enrichedRecords.length > 0 ? enrichedRecords : allResults
FinalRecords(enriched, all) == IF Len(enriched) > 0 THEN enriched ELSE all

-----------------------------------------------------------------------------
(* The remote site *)

RowA ==
    ResultRow(RelativeViewUrl, "SMITH JOHN", "MAIN ST  12", "P1", "00", MidWeek)
RowB ==
    ResultRow(AbsoluteViewUrl, "JONES MARY", " OAK AVE 7 ", "P2", "00", MidWeek)
RowC ==
    ResultRow("", "DOE JANE", "ELM ST 3", "P3", "00", OnEnd)

\* What a result page can show.
PageContents == {<<RowA>>, <<RowB>>, <<RowC>>, <<RowA, RowB>>}

\* A search without results shows one page without data rows.
NoResultPages == << <<>> >>

Sites ==
    {[pages |-> p, cursor |-> 1] :
        p \in {NoResultPages}
              \cup UNION {[1..n -> PageContents] : n \in 1..MaxPages}}

SaleOnStart ==
    SaleRecord(OnStart, HighPrice, "Warranty Deed", "Y", "101-11")
SaleMidWeek ==
    SaleRecord(MidWeek, LowPrice, "Quitclaim Deed", "N", "102-22")
SaleAfterRange ==
    SaleRecord(AfterRange, PriceText("plain", 180000), "Warranty Deed", "Y", "103-33")

SaleUniverse == {SaleOnStart, SaleMidWeek, SaleAfterRange}

\* What the sales table of a detail page can hold.
SalesTables == UNION {[1..n -> SaleUniverse] : n \in 0..MaxSales}

-----------------------------------------------------------------------------
(* extract, step by step *)

NoValue == <<>>

LimiterIdle ==
    /\ now = 0
    /\ lastCall = 0
    /\ callers = <<>>
    /\ releases = <<>>

RetryIdle ==
    /\ rpc = "idle"
    /\ rOpts = <<>>
    /\ rAttempt = 0
    /\ rLog = <<>>
    /\ rResult = NoValue

DedupeIdle ==
    /\ dpc = "idle"
    /\ dInput = <<>>
    /\ dOutput = <<>>
    /\ dTwice = <<>>

RunIdle ==
    /\ runPc = "idle"
    /\ runOpts = <<>>
    /\ runData = <<>>
    /\ effects = <<>>
    /\ exitCode = "running"

CallIdle ==
    /\ callPc = "idle"
    /\ callArg = <<>>
    /\ callResult = <<>>

SideIdle == LimiterIdle /\ RetryIdle /\ DedupeIdle /\ RunIdle /\ CallIdle

FilterIdle ==
    /\ fpc = "idle"
    /\ fInput = <<>>
    /\ fResult = EmptyFilterResult

Init ==
    /\ tz \in TimeZones
    /\ dateRange = getWeekRangeFromMonday(DateText("iso", RangeMonday), tz)
    /\ config \in Configs
    /\ FilterIdle
    /\ SideIdle
    /\ pc = "navigate"
    /\ site \in Sites
    /\ attempt = 0
    /\ allResults = <<>>
    /\ parcelUrls = <<>>
    /\ pageNum = 0
    /\ hasMore = FALSE
    /\ batchStart = 0
    /\ fetch = <<>>
    /\ parcelDetails = <<>>
    /\ enrichedRecords = <<>>
    /\ result = NoValue
    /\ log = <<>>

walkVars == <<allResults, parcelUrls, pageNum, hasMore, log, site>>
enrichVars == <<batchStart, fetch, parcelDetails, enrichedRecords>>
envVars == <<tz, dateRange, config, filterVars, sideVars>>

\* A step wrapped in withRetry(fn, {maxRetries: 3, isRetryable}): one call
\* of fn.  It succeeds, or throws an error withRetry retries or rethrows.
RetriedStep(here, next) ==
    /\ pc = here
    /\ \/ /\ pc' = next
          /\ attempt' = 0
          /\ result' = result
       \/ \E error \in Errors :
            IF withRetryOnError(attempt, NavigateMaxRetries, error) = "retry"
            THEN /\ attempt' = attempt + 1
                 /\ UNCHANGED <<pc, result>>
            ELSE /\ pc' = "thrown"
                 /\ result' = [error |-> error]
                 /\ attempt' = attempt
    /\ UNCHANGED <<walkVars, enrichVars, envVars>>

NavigateToSearch == RetriedStep("navigate", "search")

ExecuteSearch == RetriedStep("search", "hasResults")

CheckHasResults ==
    /\ pc = "hasResults"
    /\ pc' = AfterHasResults(hasResults(site))
    /\ IF pc' = "returned"
       THEN result' = EmptyExtraction /\ pageNum' = pageNum
       ELSE result' = result /\ pageNum' = 1
    /\ UNCHANGED <<allResults, parcelUrls, hasMore, log, site, attempt,
                   enrichVars, envVars>>

ExtractResultsFromPage ==
    /\ pc = "extractPage"
    /\ LET got == CollectRows(site.pages[site.cursor], 1, allResults, parcelUrls)
       IN /\ allResults' = got.allResults
          /\ parcelUrls' = got.parcelUrls
    /\ log' = Append(log, <<"extract", site.cursor>>)
    /\ pc' = "hasNext"
    /\ UNCHANGED <<pageNum, hasMore, site, attempt, result, enrichVars, envVars>>

HasNextPage ==
    /\ pc = "hasNext"
    /\ \E button \in NextButtons(site) :
         /\ hasMore' = hasNextPage(button)
         /\ log' = Append(log, <<"hasNext", site.cursor, hasMore'>>)
         /\ pc' = IF hasMore' THEN "advance" ELSE "batch"
    /\ UNCHANGED <<allResults, parcelUrls, pageNum, site, attempt, result,
                   enrichVars, envVars>>

\* await goToNextPage(page); pageNum++; await sleep(500)
GoToNextPage ==
    /\ pc = "advance"
    /\ pageNum < MaxPageNum
    /\ \E button \in NextButtons(site), clickOk \in BOOLEAN :
         LET moved == goToNextPage(button, clickOk)
         IN /\ site' = IF moved THEN [site EXCEPT !.cursor = @ + 1] ELSE site
            /\ log' = Append(log, <<"advance", moved>>)
    /\ pageNum' = pageNum + 1
    /\ pc' = "extractPage"
    /\ UNCHANGED <<allResults, parcelUrls, hasMore, attempt, result,
                   enrichVars, envVars>>

\* The loop test holds: slice the batch and start its fetches.
StartBatch ==
    /\ pc = "batch"
    /\ batchStart < Len(parcelUrls)
    /\ Cardinality({k \in 1..Len(log) : log[k][1] = "details"}) < MaxBatches
    /\ LET batch == BatchSlice(parcelUrls, batchStart, config.concurrency)
       IN /\ fetch' = [j \in 1..Len(batch) |->
                         [parcelId |-> batch[j][1], url |-> batch[j][2],
                          status |-> "running", attempt |-> 0,
                          error |-> "", value |-> NoValue]]
          /\ log' = Append(log, <<"details", Len(batch)>>)
    /\ pc' = "await"
    /\ UNCHANGED <<allResults, parcelUrls, pageNum, hasMore, site, attempt,
                   result, batchStart, parcelDetails, enrichedRecords, envVars>>

\* One call of the function withRetry wraps for parcel j of the batch:
\* createPage, extractParcelDetails, detailPage.close.  attempt is
\* withRetry's loop counter, which lives until the promise settles.
FetchAttempt(j) ==
    /\ pc = "await"
    /\ fetch[j].status = "running"
    /\ \/ \* the page loads and is read
          \E sales \in SalesTables :
             fetch' = [fetch EXCEPT
                         ![j].status = "fulfilled",
                         ![j].attempt = 0,
                         ![j].value = extractParcelDetails(fetch[j].url,
                                          fetch[j].parcelId, sales)]
       \/ \* an error inside extractParcelDetails: caught, null returned
          \E error \in Errors :
             fetch' = [fetch EXCEPT
                         ![j].status = "null",
                         ![j].attempt = 0,
                         ![j].error = error]
       \/ \* createPage or detailPage.close throws
          \E error \in Errors :
             IF withRetryOnError(fetch[j].attempt, DetailMaxRetries, error) = "retry"
             THEN fetch' = [fetch EXCEPT ![j].attempt = @ + 1]
             ELSE fetch' = [fetch EXCEPT
                              ![j].status = "rejected",
                              ![j].attempt = 0,
                              ![j].error = error]
    /\ log' = IF fetch'[j].status # "running"
              THEN Append(log, <<"settled", fetch[j].parcelId>>)
              ELSE log
    /\ UNCHANGED <<pc, allResults, parcelUrls, pageNum, hasMore, site, attempt,
                   result, batchStart, parcelDetails, enrichedRecords, envVars>>

\* Promise.allSettled resolved: reconcile the batch, in batch order.
ReconcileBatch ==
    /\ pc = "await"
    /\ \A j \in 1..Len(fetch) : fetch[j].status # "running"
    /\ LET acc == ReconcileBatchFrom(BatchResults(fetch, log), 1,
                     [parcelDetails |-> parcelDetails,
                      enrichedRecords |-> enrichedRecords],
                     allResults, dateRange)
       IN /\ parcelDetails' = acc.parcelDetails
          /\ enrichedRecords' = acc.enrichedRecords
    /\ batchStart' = batchStart + config.concurrency
    /\ fetch' = <<>>
    /\ pc' = "batch"
    /\ UNCHANGED <<walkVars, attempt, result, envVars>>

\* The loop test fails: return.
ReturnResult ==
    /\ pc = "batch"
    /\ ~(batchStart < Len(parcelUrls))
    /\ result' = [rawRecords |-> FinalRecords(enrichedRecords, allResults),
                  parcelDetails |-> parcelDetails,
                  totalParcels |-> Len(parcelUrls),
                  totalPages |-> pageNum]
    /\ pc' = "returned"
    /\ UNCHANGED <<walkVars, attempt, enrichVars, envVars>>

Next ==
    \/ NavigateToSearch
    \/ ExecuteSearch
    \/ CheckHasResults
    \/ ExtractResultsFromPage
    \/ HasNextPage
    \/ GoToNextPage
    \/ StartBatch
    \/ \E j \in 1..Len(fetch) : FetchAttempt(j)
    \/ ReconcileBatch
    \/ ReturnResult

Spec == Init /\ [][Next]_vars

-----------------------------------------------------------------------------
(* run up to extraction, with whatever CONCURRENCY and EMAIL_TO hold *)

\* What CONCURRENCY can parse to: any integer.
ConcurrencyValues == {0 - 1, 0, 1, 11}

EnvConfigs ==
    {[loadConfigWith(c) EXCEPT !.emailTo = e] :
        c \in ConcurrencyValues, e \in {"", "reports@example.com"}}

BatchLoopInit ==
    /\ tz = 0
    /\ dateRange = getWeekRangeFromMonday(DateText("iso", RangeMonday), tz)
    /\ config \in EnvConfigs
    /\ FilterIdle
    /\ LimiterIdle /\ RetryIdle /\ DedupeIdle /\ CallIdle
    /\ runPc = "validate"
    /\ runOpts \in [dryRun : BOOLEAN, s3Bucket : {FALSE}, configValid : {FALSE}]
    /\ runData = <<>>
    /\ effects = <<>>
    /\ exitCode = "running"
    /\ pc = "uncreated"
    /\ site \in Sites
    /\ attempt = 0
    /\ allResults = <<>>
    /\ parcelUrls = <<>>
    /\ pageNum = 0
    /\ hasMore = FALSE
    /\ batchStart = 0
    /\ fetch = <<>>
    /\ parcelDetails = <<>>
    /\ enrichedRecords = <<>>
    /\ result = NoValue
    /\ log = <<>>

\* const errors = validateConfig(config, !options.dryRun): with errors and
\* without --dry-run the process exits; else the client is created and
\* extract is entered.
ValidateAndExtract ==
    /\ runPc = "validate"
    /\ LET errors == validateConfig(config, ~runOpts.dryRun)
       IN /\ runOpts' = [runOpts EXCEPT !.configValid = (errors = <<>>)]
          /\ IF errors # <<>> /\ ~runOpts.dryRun
             THEN /\ runPc' = "exited"
                  /\ exitCode' = 1
                  /\ pc' = pc
             ELSE /\ runPc' = "extract"
                  /\ exitCode' = exitCode
                  /\ pc' = "navigate"
    /\ UNCHANGED <<tz, dateRange, config, filterVars, limiterVars, retryVars,
                   dedupeVars, callVars, runData, effects, walkVars, attempt,
                   result, enrichVars>>

NextBatchLoop == ValidateAndExtract \/ Next

SpecBatchLoop ==
    BatchLoopInit /\ [][NextBatchLoop]_vars /\ WF_vars(NextBatchLoop)

-----------------------------------------------------------------------------
(* The filter, applied to every bounded input *)

ExtractIdle ==
    /\ pc = "idle"
    /\ site = <<>>
    /\ attempt = 0
    /\ allResults = <<>>
    /\ parcelUrls = <<>>
    /\ pageNum = 0
    /\ hasMore = FALSE
    /\ batchStart = 0
    /\ fetch = <<>>
    /\ parcelDetails = <<>>
    /\ enrichedRecords = <<>>
    /\ result = NoValue
    /\ log = <<>>

FilterInit ==
    /\ tz \in TimeZones
    /\ dateRange = getWeekRangeFromMonday(DateText("iso", RangeMonday), tz)
    /\ config = loadConfig
    /\ fpc = "ready"
    /\ fInput \in FilterInputs
    /\ fResult = EmptyFilterResult
    /\ ExtractIdle
    /\ SideIdle

ApplyFilter ==
    /\ fpc = "ready"
    /\ fResult' = filterRecords(fInput, config, dateRange, tz)
    /\ fpc' = "done"
    /\ UNCHANGED <<tz, dateRange, config, fInput, extractVars, sideVars>>

NextFilter == ApplyFilter

SpecFilter == FilterInit /\ [][NextFilter]_vars

-----------------------------------------------------------------------------
(* utils/retry: createRateLimiter, as extract's batches call it *)

\* requestDelayMs and the length of the modelled run, in ticks of the clock;
\* the calls of a run.
DelayTicks == 2
MaxTime == 8
MaxCalls == 4

\* The synchronous part of one call at instant t with the closure holding
\* last: `elapsed < delayMs` sends the call to sleep(delayMs - elapsed);
\* otherwise lastCall = Date.now() and the call returns.
rateLimiterEnter(last, t) ==
    LET elapsed == t - last
    IN IF elapsed < DelayTicks
       THEN [state |-> "sleeping", wakeAt |-> t + (DelayTicks - elapsed),
             lastCall |-> last]
       ELSE [state |-> "released", wakeAt |-> t, lastCall |-> t]

\* batch.map(async ...) runs every callback up to its first suspension, in
\* batch order, before anything else runs: call k sees the lastCall the
\* calls before it left.
RECURSIVE EnterBatch(_, _, _, _)
EnterBatch(n, k, acc, t) ==
    IF k > n THEN acc
    ELSE LET entered == rateLimiterEnter(acc.lastCall, t)
         IN EnterBatch(n, k + 1,
               [lastCall |-> entered.lastCall,
                callers |-> Append(acc.callers,
                               [state |-> entered.state,
                                wakeAt |-> entered.wakeAt]),
                releases |-> IF entered.state = "released"
                             THEN Append(acc.releases, t)
                             ELSE acc.releases],
               t)

LimiterInit ==
    /\ tz = 0
    /\ dateRange = getWeekRangeFromMonday(DateText("iso", RangeMonday), tz)
    /\ config \in Configs
    /\ FilterIdle
    /\ ExtractIdle
    /\ RetryIdle
    /\ DedupeIdle
    /\ RunIdle
    /\ CallIdle
    /\ now = DelayTicks
    /\ lastCall = 0
    /\ callers = <<>>
    /\ releases = <<>>

limiterFrame == <<tz, dateRange, config, filterVars, extractVars, retryVars,
                  dedupeVars, runVars, callVars>>

\* A batch of n parcels: the n callbacks call this.rateLimiter().
LimiterStartBatch ==
    /\ callers = <<>>
    /\ \E n \in 1..config.concurrency :
          /\ Len(releases) + n <= MaxCalls
          /\ LET acc == EnterBatch(n, 1,
                           [lastCall |-> lastCall, callers |-> <<>>,
                            releases |-> releases], now)
             IN /\ lastCall' = acc.lastCall
                /\ callers' = acc.callers
                /\ releases' = acc.releases
    /\ UNCHANGED <<now, limiterFrame>>

\* The timer of a sleeping call fires, at or after its time: the call
\* resumes after the await, sets lastCall = Date.now() and returns.
LimiterWake(i) ==
    /\ callers[i].state = "sleeping"
    /\ now >= callers[i].wakeAt
    /\ lastCall' = now
    /\ callers' = [callers EXCEPT ![i].state = "released"]
    /\ releases' = Append(releases, now)
    /\ UNCHANGED <<now, limiterFrame>>

\* Every fetch of the batch has settled; the batch loop goes round.
LimiterSettleBatch ==
    /\ callers # <<>>
    /\ \A i \in 1..Len(callers) : callers[i].state = "released"
    /\ callers' = <<>>
    /\ UNCHANGED <<now, lastCall, releases, limiterFrame>>

LimiterTick ==
    /\ now < MaxTime
    /\ now' = now + 1
    /\ UNCHANGED <<lastCall, callers, releases, limiterFrame>>

NextLimiter ==
    \/ LimiterStartBatch
    \/ \E i \in 1..Len(callers) : LimiterWake(i)
    \/ LimiterSettleBatch
    \/ LimiterTick

SpecLimiter == LimiterInit /\ [][NextLimiter]_vars

-----------------------------------------------------------------------------
(* utils/retry: withRetry, for every option and every outcome of fn *)

MaxRetryBudget == 3

RetryErrors ==
    Errors \cup {"net::ERR_NETWORK_CHANGED", "Protocol error: Target closed.",
                 "Request timed out", "Unexpected token < in JSON"}

FnValues == {"first", "second"}

RetryInit ==
    /\ tz = 0
    /\ dateRange = getWeekRangeFromMonday(DateText("iso", RangeMonday), tz)
    /\ config = loadConfig
    /\ FilterIdle
    /\ ExtractIdle
    /\ LimiterIdle
    /\ DedupeIdle
    /\ RunIdle
    /\ CallIdle
    /\ rOpts \in [maxRetries : 0..MaxRetryBudget,
                  isRetryable : {"none", "network"}]
    /\ rpc = "call"
    /\ rAttempt = 0
    /\ rLog = <<>>
    /\ rResult = NoValue

retryFrame == <<tz, dateRange, config, filterVars, extractVars, limiterVars,
                dedupeVars, runVars, callVars>>

\* One round of the loop body up to the sleep: fn is called; its value is
\* returned, or its error is caught and the loop breaks or goes on.
RetryCallFn ==
    /\ rpc = "call"
    /\ \/ \E v \in FnValues :
            /\ rLog' = Append(rLog, [op |-> "call", out |-> "ok", value |-> v])
            /\ rpc' = "returned"
            /\ rResult' = [value |-> v]
       \/ \E error \in RetryErrors :
            /\ rLog' = Append(rLog, [op |-> "call", out |-> "error",
                                     value |-> error])
            /\ IF withRetryCatch(rAttempt, rOpts.maxRetries,
                                 rOpts.isRetryable, error) = "throw"
               THEN rpc' = "thrown"
               ELSE rpc' = "sleep"
            /\ rResult' = [error |-> error]
    /\ UNCHANGED <<rOpts, rAttempt, retryFrame>>

\* await sleep(delay); attempt++; the loop test; `throw lastError` after
\* the loop.
RetrySleep ==
    /\ rpc = "sleep"
    /\ rLog' = Append(rLog, [op |-> "sleep", out |-> "", value |-> ""])
    /\ rAttempt' = rAttempt + 1
    /\ rpc' = IF rAttempt' <= rOpts.maxRetries THEN "call" ELSE "thrown"
    /\ UNCHANGED <<rOpts, rResult, retryFrame>>

NextRetry == RetryCallFn \/ RetrySleep

SpecRetry == RetryInit /\ [][NextRetry]_vars

-----------------------------------------------------------------------------
(* processors/dedupe *)

MaxDedupe == 3      \* records handed to a dedup pass

\* s.trim().replace(/\s+/g, ' ') on the parcel ids of the model
normalizeParcelId(parcelId) ==
    CASE parcelId = "067    05308 000" -> "067 05308 000"
      [] parcelId = " 067 05308 000 " -> "067 05308 000"
      [] OTHER -> parcelId

\* null, for owner_name: string | null
Null == "(null)"

\* s.toUpperCase() on the owner, address and city texts of the model
ToUpperCase(s) ==
    CASE s = "12 Main St" -> "12 MAIN ST"
      [] s = "smith john" -> "SMITH JOHN"
      [] s = "Covington" -> "COVINGTON"
      [] OTHER -> s

\* s.trim() on the same texts
TrimText(s) ==
    CASE s = "12 Main St " -> "12 Main St"
      [] s = "smith john " -> "smith john"
      [] s = " " -> ""
      [] OTHER -> s

\* s?.trim().toUpperCase() || ''
TrimUpperOrEmpty(s) ==
    IF s = Null THEN "" ELSE ToUpperCase(TrimText(s))

\* The keys are template strings `a|b|c`; the model keeps the parts.
generateSaleKeyRaw(record) ==
    <<record.parcel_id, parseSaleDate(record.sale_date),
      parseSalePrice(record.sale_price)>>

generateSaleKey(record) ==
    <<normalizeParcelId(record.parcel_id), parseSaleDate(record.sale_date),
      parseSalePrice(record.sale_price)>>

generateCleanedSaleKey(sale) ==
    <<normalizeParcelId(sale.parcel_id), TrimUpperOrEmpty(sale.situs_address),
      sale.sale_date, sale.sale_price>>

generateAddressKey(sale) ==
    <<TrimUpperOrEmpty(sale.situs_address), TrimUpperOrEmpty(sale.city),
      sale.sale_date, sale.sale_price>>

RECURSIVE DedupRawLoop(_, _, _, _)
DedupRawLoop(records, i, seen, unique) ==
    IF i > Len(records) THEN unique
    ELSE LET key == generateSaleKey(records[i])
         IN IF key \notin seen
            THEN DedupRawLoop(records, i + 1, seen \cup {key},
                              Append(unique, records[i]))
            ELSE DedupRawLoop(records, i + 1, seen, unique)

deduplicateRawRecords(records) == DedupRawLoop(records, 1, {}, <<>>)

\* if (seenByKey.has(primaryKey) || seenByAddress.has(addressKey)) continue
CleanedSeenPrimaryOnly(seenByKey, seenByAddress, sale) ==
    generateCleanedSaleKey(sale) \in seenByKey

CleanedSeen(seenByKey, seenByAddress, sale) ==
    \/ generateCleanedSaleKey(sale) \in seenByKey
    \/ generateAddressKey(sale) \in seenByAddress

RECURSIVE DedupCleanedLoop(_, _, _, _, _)
DedupCleanedLoop(sales, i, seenByKey, seenByAddress, unique) ==
    IF i > Len(sales) THEN unique
    ELSE IF CleanedSeen(seenByKey, seenByAddress, sales[i])
    THEN DedupCleanedLoop(sales, i + 1, seenByKey, seenByAddress, unique)
    ELSE DedupCleanedLoop(sales, i + 1,
            seenByKey \cup {generateCleanedSaleKey(sales[i])},
            seenByAddress \cup {generateAddressKey(sales[i])},
            Append(unique, sales[i]))

deduplicateCleanedSales(sales) == DedupCleanedLoop(sales, 1, {}, {}, <<>>)

ownerAddressKey(sale) ==
    <<TrimUpperOrEmpty(sale.owner_name), TrimUpperOrEmpty(sale.situs_address)>>

\* byOwnerAddress.get(key): the position of the key's entry, 0 when none
MapIndex(entries, key) ==
    IF \E i \in 1..Len(entries) : entries[i][1] = key
    THEN CHOOSE i \in 1..Len(entries) : entries[i][1] = key
    ELSE 0

\* if (sale.sale_price > existing.sale_price) byOwnerAddress.set(key, sale)
ReplacesExistingOnTie(sale, existing) == sale.sale_price >= existing.sale_price

ReplacesExisting(sale, existing) == sale.sale_price > existing.sale_price

RECURSIVE DedupOwnerLoop(_, _, _)
DedupOwnerLoop(sales, i, byOwnerAddress) ==
    IF i > Len(sales) THEN byOwnerAddress
    ELSE LET sale == sales[i]
             key == ownerAddressKey(sale)
             at == MapIndex(byOwnerAddress, key)
         IN IF key = <<"", "">>
            THEN DedupOwnerLoop(sales, i + 1, byOwnerAddress)
            ELSE IF at = 0
            THEN DedupOwnerLoop(sales, i + 1, MapSet(byOwnerAddress, key, sale))
            ELSE IF ReplacesExisting(sale, byOwnerAddress[at][2])
            THEN DedupOwnerLoop(sales, i + 1, MapSet(byOwnerAddress, key, sale))
            ELSE DedupOwnerLoop(sales, i + 1, byOwnerAddress)

\* Array.from(byOwnerAddress.values())
deduplicateByOwnerAddress(sales) ==
    LET entries == DedupOwnerLoop(sales, 1, <<>>)
    IN [i \in 1..Len(entries) |-> entries[i][2]]

\* A CleanedSale from f = <<parcel_id, situs_address, city, owner_name,
\* sale_date, sale_price, deed_instrument, land_use, zip, source_url>>;
\* extracted_at, the time of the run, is left out.
CleanedSale(f) ==
    [parcel_id |-> f[1], situs_address |-> f[2], city |-> f[3],
     state |-> "TN", zip |-> f[9], owner_name |-> f[4],
     owner_mailing_address |-> Null, sale_date |-> f[5], sale_price |-> f[6],
     deed_instrument |-> f[7], land_use |-> f[8], source_url |-> f[10]]

\* Raw records that agree or differ in parcel-id spacing, date format, price
\* format, day and amount.
DedupeRawUniverse ==
    {RawRecord(<<id, "SMITH JOHN", "12 MAIN ST", "COVINGTON", "", "00", "00",
                 d, p, "Warranty Deed", "Y", <<>> >>) :
        id \in {"067 05308 000", "067    05308 000", "068 01200 000"},
        d \in {DateText("mdy", RangeMonday + 2), DateText("iso", RangeMonday + 2),
               DateText("iso", RangeMonday + 3)},
        p \in {PriceText("currency", 250000), PriceText("plain", 250000)}}
    \cup {RawRecord(<<" 067 05308 000 ", "SMITH JOHN", "12 MAIN ST",
                      "COVINGTON", "", "00", "00", EmptyDate, EmptyPrice, "",
                      "", <<>> >>)}

CleanedOf(id, address, city, owner, price) ==
    CleanedSale(<<id, address, city, owner, DateText("iso", RangeMonday + 2),
                  price, "Warranty Deed", "00", "", <<>> >>)

\* Cleaned sales that share the primary key, the address key, the
\* owner+address key, several or none of them, with equal and with
\* different prices, and with owner and address missing.
DedupeCleanedUniverse ==
    {CleanedOf("067 05308 000", "12 MAIN ST", "COVINGTON", "SMITH JOHN", 250000),
     CleanedOf("067    05308 000", "12 MAIN ST", "COVINGTON", "SMITH JOHN", 250000),
     CleanedOf("068 01200 000", "12 Main St ", "Covington", "smith john ", 250000),
     CleanedOf("068 01200 000", "12 MAIN ST", "BRIGHTON", "SMITH JOHN", 300000),
     CleanedOf("067 05308 000", "12 MAIN ST", "BRIGHTON", "SMITH JOHN", 250000),
     CleanedOf("069 00100 000", "", "", Null, 100000),
     CleanedOf("069 00200 000", " ", "", "", 300000),
     CleanedOf("070 00300 000", "7 OAK AVE", "COVINGTON", Null, 100000),
     CleanedOf("070 00300 000", "7 OAK AVE", "COVINGTON", "DOE JANE", 100000)}

DedupeInputs ==
    UNION {[pass : {"raw"}, items : [1..n -> DedupeRawUniverse]]
             \cup [pass : {"cleaned", "ownerAddress"},
                   items : [1..n -> DedupeCleanedUniverse]] :
           n \in 0..MaxDedupe}

ApplyDedupe(input) ==
    CASE input.pass = "raw" -> deduplicateRawRecords(input.items)
      [] input.pass = "cleaned" -> deduplicateCleanedSales(input.items)
      [] input.pass = "ownerAddress" -> deduplicateByOwnerAddress(input.items)

DedupeInit ==
    /\ tz = 0
    /\ dateRange = getWeekRangeFromMonday(DateText("iso", RangeMonday), tz)
    /\ config = loadConfig
    /\ FilterIdle
    /\ ExtractIdle
    /\ LimiterIdle
    /\ RetryIdle
    /\ RunIdle
    /\ CallIdle
    /\ dpc = "ready"
    /\ dInput \in DedupeInputs
    /\ dOutput = <<>>
    /\ dTwice = <<>>

dedupeFrame == <<tz, dateRange, config, filterVars, extractVars, limiterVars,
                 retryVars, runVars, callVars>>

\* The pass is applied to the list.
DedupePass ==
    /\ dpc = "ready"
    /\ dOutput' = ApplyDedupe(dInput)
    /\ dpc' = "done"
    /\ UNCHANGED <<dInput, dTwice, dedupeFrame>>

\* The pass is applied to what it returned.
DedupePassAgain ==
    /\ dpc = "done"
    /\ dTwice' = ApplyDedupe([pass |-> dInput.pass, items |-> dOutput])
    /\ dpc' = "again"
    /\ UNCHANGED <<dInput, dOutput, dedupeFrame>>

NextDedupe == DedupePass \/ DedupePassAgain

SpecDedupe == DedupeInit /\ [][NextDedupe]_vars

-----------------------------------------------------------------------------
(* processors/transform *)

\* address.trim().replace(/\s+/g, ' ').toUpperCase(); '' stays ''
cleanAddress(address) ==
    IF address = "" THEN "" ELSE ToUpperCase(TrimText(address))

\* name.trim(), blanks collapsed, characters outside \w \s , . ' & -
\* removed: the owner names of the model hold none of those
cleanOwnerName(name) ==
    IF name = "" THEN "" ELSE TrimText(name)

\* transformRecord.  No address of the model holds a comma, so city and zip
\* are never parsed out of the address; extracted_at is left out.
transformRecord(record) ==
    LET salePrice == parseSalePrice(record.sale_price)
        saleDate == parseSaleDate(record.sale_date)
        propertyAddress == cleanAddress(record.property_address)
        city == TrimText(record.city)
        zip == TrimText(record.zip)
        ownerName == cleanOwnerName(record.owner_name)
    IN CleanedSale(<<TrimText(record.parcel_id), propertyAddress,
                     ToUpperCase(city),
                     IF ownerName = "" THEN Null ELSE ownerName,
                     saleDate, salePrice,
                     TrimText(record.deed_instrument),
                     IF TrimText(record.land_use) # ""
                     THEN TrimText(record.land_use)
                     ELSE TrimText(record.classification),
                     zip, record.source_url>>)

transformRecords(records) ==
    [i \in 1..Len(records) |-> transformRecord(records[i])]

\* A quotient a / b of two integers, kept as the pair; the literal 0 of the
\* empty case is 0 / 1.
Ratio(num, den) == [num |-> num, den |-> den]

RECURSIVE InsertSorted(_, _)
InsertSorted(sorted, p) ==
    IF sorted = <<>> THEN <<p>>
    ELSE IF p - Head(sorted) < 0 THEN <<p>> \o sorted
    ELSE <<Head(sorted)>> \o InsertSorted(Tail(sorted), p)

RECURSIVE SortAscendingFrom(_, _)
SortAscendingFrom(prices, sorted) ==
    IF prices = <<>> THEN sorted
    ELSE SortAscendingFrom(Tail(prices), InsertSorted(sorted, Head(prices)))

\* The prices left in the order of the sales.
SortAscendingNot(prices) == prices

\* prices.sort((a, b) => a - b)
SortAscending(prices) == SortAscendingFrom(prices, <<>>)

RECURSIVE Reduce(_, _)
Reduce(prices, sum) ==
    IF prices = <<>> THEN sum ELSE Reduce(Tail(prices), sum + Head(prices))

getSalesStats(sales) ==
    IF Len(sales) = 0
    THEN [count |-> 0, totalValue |-> 0, averagePrice |-> Ratio(0, 1),
          medianPrice |-> Ratio(0, 1), minPrice |-> 0, maxPrice |-> 0]
    ELSE LET prices == SortAscending([i \in 1..Len(sales) |-> sales[i].sale_price])
             totalValue == Reduce(prices, 0)
             \* sequences start at 1, arrays at 0
             medianIndex == Len(prices) \div 2
             medianPrice == IF Len(prices) % 2 = 0
                            THEN Ratio(prices[medianIndex] + prices[medianIndex + 1], 2)
                            ELSE Ratio(prices[medianIndex + 1], 1)
         IN [count |-> Len(sales), totalValue |-> totalValue,
             averagePrice |-> Ratio(totalValue, Len(sales)),
             medianPrice |-> medianPrice, minPrice |-> prices[1],
             maxPrice |-> prices[Len(prices)]]

\* Raw records as a detail page or a list row can give them: prices with
\* and without currency marks, blank, not a number, and below zero; dates
\* as M/D/YYYY, as ISO, blank, and text that is no date; an owner name,
\* one with a trailing blank, a blank one and none.
TransformUniverse ==
    {RawRecord(<<"067 05308 000", owner, "12 Main St ", "Covington", "38019",
                 "00", "", d, p, "Warranty Deed", "Y", <<>> >>) :
        owner \in {"SMITH JOHN", "smith john ", " ", ""},
        d \in {DateText("mdy", RangeMonday + 2), DateText("iso", RangeMonday + 2),
               EmptyDate, GarbageDate},
        p \in {PriceText("currency", 250000), PriceText("plain", 250000),
               EmptyPrice, PriceText("text", 0), PriceText("plain", 0 - 500)}}

-----------------------------------------------------------------------------
(* extract, then run's raw dedup and filter on what it returned *)

\* MIN_SALE_PRICE at its smallest positive value and at its default.
MinSalePrices == {1, DefaultMinSalePrice}

ExtractFilterInit ==
    /\ tz = 0
    /\ dateRange = getWeekRangeFromMonday(DateText("iso", RangeMonday), tz)
    /\ config \in {[loadConfig EXCEPT !.minSalePrice = m] : m \in MinSalePrices}
    /\ FilterIdle
    /\ SideIdle
    /\ pc = "navigate"
    /\ site \in Sites
    /\ attempt = 0
    /\ allResults = <<>>
    /\ parcelUrls = <<>>
    /\ pageNum = 0
    /\ hasMore = FALSE
    /\ batchStart = 0
    /\ fetch = <<>>
    /\ parcelDetails = <<>>
    /\ enrichedRecords = <<>>
    /\ result = NoValue
    /\ log = <<>>

\* const deduped = deduplicateRawRecords(rawRecords);
\* const { passed, filtered, reasons } = filterRecords(deduped, config, dateRange)
FilterExtracted ==
    /\ pc = "returned"
    /\ fpc = "idle"
    /\ Len(result.rawRecords) > 0
    /\ fInput' = deduplicateRawRecords(result.rawRecords)
    /\ fResult' = filterRecords(fInput', config, dateRange, tz)
    /\ fpc' = "done"
    /\ UNCHANGED <<tz, dateRange, config, extractVars, sideVars>>

NextExtractFilter == Next \/ FilterExtracted

SpecExtractFilter == ExtractFilterInit /\ [][NextExtractFilter]_vars

-----------------------------------------------------------------------------
(* Calls of the pure functions *)

\* The frame of a call of one pure function.
callFrame == <<tz, dateRange, config, filterVars, extractVars, limiterVars,
               retryVars, dedupeVars, runVars>>

CallOthersIdle ==
    /\ FilterIdle
    /\ ExtractIdle
    /\ LimiterIdle
    /\ RetryIdle
    /\ DedupeIdle
    /\ RunIdle

TransformInit ==
    /\ tz = 0
    /\ dateRange = getWeekRangeFromMonday(DateText("iso", RangeMonday), tz)
    /\ config = loadConfig
    /\ CallOthersIdle
    /\ callPc = "ready"
    /\ callArg \in TransformUniverse
    /\ callResult = <<>>

ApplyTransformRecord ==
    /\ callPc = "ready"
    /\ callResult' = transformRecord(callArg)
    /\ callPc' = "done"
    /\ UNCHANGED <<callArg, callFrame>>

NextTransform == ApplyTransformRecord

SpecTransform == TransformInit /\ [][NextTransform]_vars

\* Reference instants: MaxRefDay days from the second Sunday on, each at
\* midnight, in the small hours, and late in the evening, UTC.
MaxRefDay == 10
RefHours == {0, 3, 22}
ReferenceDates ==
    {DateAt((6 + d) * MsPerDay + h * MsPerHour) : d \in 1..MaxRefDay, h \in RefHours}

\* --week values: every day of two weeks, text that is no date, and ''.
WeekArguments ==
    {DateText("iso", 6 + d) : d \in 1..MaxRefDay} \cup {GarbageDate, EmptyDate}

DateRangeInit ==
    /\ tz \in TimeZones
    /\ dateRange = getWeekRangeFromMonday(DateText("iso", RangeMonday), tz)
    /\ config = loadConfig
    /\ CallOthersIdle
    /\ callPc = "ready"
    /\ callArg \in [fn : {"getPreviousWeekRange"}, arg : ReferenceDates]
                  \cup [fn : {"getWeekRangeFromMonday"}, arg : WeekArguments]
    /\ callResult = <<>>

ApplyGetPreviousWeekRange ==
    /\ callPc = "ready"
    /\ callArg.fn = "getPreviousWeekRange"
    /\ callResult' = getPreviousWeekRange(callArg.arg, tz)
    /\ callPc' = "done"
    /\ UNCHANGED <<callArg, callFrame>>

ApplyGetWeekRangeFromMonday ==
    /\ callPc = "ready"
    /\ callArg.fn = "getWeekRangeFromMonday"
    /\ callResult' = getWeekRangeFromMonday(callArg.arg, tz)
    /\ callPc' = "done"
    /\ UNCHANGED <<callArg, callFrame>>

NextDateRange == ApplyGetPreviousWeekRange \/ ApplyGetWeekRangeFromMonday

SpecDateRange == DateRangeInit /\ [][NextDateRange]_vars

\* Lists of up to MaxStats sales, in any order of price, with equal prices
\* and a zero price among them.
MaxStats == 3
StatPrices == {0, 100000, 200000, 250001}
StatSales ==
    {CleanedOf("067 05308 000", "12 MAIN ST", "COVINGTON", "SMITH JOHN", p) :
        p \in StatPrices}
StatInputs == UNION {[1..n -> StatSales] : n \in 0..MaxStats}

StatsInit ==
    /\ tz = 0
    /\ dateRange = getWeekRangeFromMonday(DateText("iso", RangeMonday), tz)
    /\ config = loadConfig
    /\ CallOthersIdle
    /\ callPc = "ready"
    /\ callArg \in StatInputs
    /\ callResult = <<>>

ApplyGetSalesStats ==
    /\ callPc = "ready"
    /\ callResult' = getSalesStats(callArg)
    /\ callPc' = "done"
    /\ UNCHANGED <<callArg, callFrame>>

NextStats == ApplyGetSalesStats

SpecStats == StatsInit /\ [][NextStats]_vars

\* Sale dates as the site writes them and as ISO text, from two days
\* before the range to two days after it, a blank one, and text that is no
\* date.
SaleDateTexts ==
    {DateText(kind, day) : kind \in {"mdy", "iso"},
                           day \in (RangeMonday - 2)..(RangeMonday + 8)}
    \cup {EmptyDate, GarbageDate}

InRangeInit ==
    /\ tz \in TimeZones
    /\ dateRange = getWeekRangeFromMonday(DateText("iso", RangeMonday), tz)
    /\ config = loadConfig
    /\ CallOthersIdle
    /\ callPc = "ready"
    /\ callArg \in SaleDateTexts
    /\ callResult = <<>>

\* The test enrichment applies to a sale's date and the one filterRecords
\* applies to the record made from it.
ApplyInRangeTests ==
    /\ callPc = "ready"
    /\ callResult' =
          [enrichment |-> isSaleInDateRange(callArg, dateRange.start, dateRange.end),
           filter |-> isDateInRange(parseSaleDate(callArg), dateRange, tz)]
    /\ callPc' = "done"
    /\ UNCHANGED <<callArg, callFrame>>

NextInRange == ApplyInRangeTests

SpecInRange == InRangeInit /\ [][NextInRange]_vars

-----------------------------------------------------------------------------
(* index: run and the CLI action around it *)

RunRecord(id, owner, address, city, price, instrument, qualified) ==
    RawRecord(<<id, owner, address, city, "38019", "00", "00", MidWeek, price,
                instrument, qualified, <<>> >>)

\* What extract may hand to run: a sale, the same sale spelled otherwise, a
\* dearer sale of the same owner and address, a sale of another owner at
\* the same address, a cheap sale, and a list-row stub.
RunUniverse ==
    {RunRecord("067 05308 000", "SMITH JOHN", "12 MAIN ST", "COVINGTON",
               HighPrice, "Warranty Deed", "Y"),
     RunRecord("067    05308 000", "SMITH JOHN", "12 MAIN ST", "COVINGTON",
               PriceText("plain", 250000), "Warranty Deed", "Y"),
     RunRecord("068 01200 000", "SMITH JOHN", "12 MAIN ST", "COVINGTON",
               PriceText("currency", 300000), "Warranty Deed", "Y"),
     RunRecord("068 01200 000", "DOE JANE", "12 Main St ", "Covington",
               HighPrice, "Warranty Deed", "Y"),
     RunRecord("069 00100 000", "DOE JANE", "7 OAK AVE", "COVINGTON",
               LowPrice, "Warranty Deed", "Y"),
     RunRecord("070 00300 000", "DOE JANE", "7 OAK AVE", "COVINGTON",
               EmptyPrice, "", "")}

RunExtractions == UNION {[1..n -> RunUniverse] : n \in 0..MaxRecords}

\* browser.ts keeps the browser and its context in module variables, the
\* client keeps its page: what exists, and whether run holds a client.
NoSession ==
    [client |-> FALSE, page |-> FALSE, context |-> FALSE, browser |-> FALSE]

\* createTpadClient: new TpadClient(config), then initialize(), which is
\* createPage: launchBrowser, newContext, newPage.
createTpadClient(session) ==
    [client |-> TRUE, page |-> TRUE, context |-> TRUE, browser |-> TRUE]

\* What closeBrowser finds open and closes, in order.
Closed(session) ==
    (IF session.context THEN <<"context">> ELSE <<>>)
    \o (IF session.browser THEN <<"browser">> ELSE <<>>)

closeBrowserContextOnly(session) == [session EXCEPT !.context = FALSE]

\* closeBrowser: if (context) { close; context = null }, the same for the
\* browser.
closeBrowser(session) ==
    [session EXCEPT !.context = FALSE, !.browser = FALSE]

\* TpadClient.close: await closeBrowser(); this.page = null
ClientClose(session) == [closeBrowser(session) EXCEPT !.page = FALSE]

\* The first thing TpadClient.extract does: if (!this.page) throw.
extractEntry(session) ==
    IF ~session.page
    THEN Thrown("Client not initialized. Call initialize() first.")
    ELSE [threw |-> FALSE, message |-> ""]

NoStageData ==
    [rawRecords |-> <<>>, deduped |-> <<>>, passed |-> <<>>,
     transformedSales |-> <<>>, dedupedByRecord |-> <<>>,
     cleanedSales |-> <<>>, error |-> "", session |-> NoSession]

Effect(op, in, out) == [op |-> op, in |-> in, out |-> out]

RunInit ==
    /\ tz \in TimeZones
    /\ dateRange = getWeekRangeFromMonday(DateText("iso", RangeMonday), tz)
    /\ config = loadConfig
    /\ FilterIdle
    /\ ExtractIdle
    /\ LimiterIdle
    /\ RetryIdle
    /\ DedupeIdle
    /\ CallIdle
    /\ runPc = "validate"
    /\ runOpts \in [dryRun : BOOLEAN, s3Bucket : BOOLEAN, configValid : BOOLEAN]
    /\ runData = NoStageData
    /\ effects = <<>>
    /\ exitCode = "running"

runFrame == <<tz, dateRange, config, filterVars, extractVars, limiterVars,
              retryVars, dedupeVars, callVars>>

\* validateConfig: with errors and without --dry-run, process.exit(1).
RunValidate ==
    /\ runPc = "validate"
    /\ IF ~runOpts.configValid /\ ~runOpts.dryRun
       THEN runPc' = "exited" /\ exitCode' = 1
       ELSE runPc' = "createClient" /\ exitCode' = exitCode
    /\ UNCHANGED <<runOpts, runData, effects, runFrame>>

\* createTpadClient, outside the try: the browser starts or it throws.
RunCreateClient ==
    /\ runPc = "createClient"
    /\ \/ /\ runPc' = "extract"
          /\ runData' = [runData EXCEPT !.session = createTpadClient(@)]
       \/ \E error \in Errors, launched \in BOOLEAN :
            /\ runPc' = "catch"
            /\ runData' = [runData EXCEPT !.error = error,
                                          !.session.browser = launched]
    /\ UNCHANGED <<runOpts, effects, exitCode, runFrame>>

\* Where run goes when client.extract has settled.
RunAfterExtractWritesAnyway(threw, rawRecords) ==
    IF threw THEN "write"
    ELSE IF Len(rawRecords) = 0 THEN "emptyReturn"
    ELSE "dedupRaw"

RunAfterExtractNoShortCircuit(threw, rawRecords) ==
    IF threw THEN "finally" ELSE "dedupRaw"

RunAfterExtract(threw, rawRecords) ==
    IF threw THEN "finally"
    ELSE IF Len(rawRecords) = 0 THEN "emptyReturn"
    ELSE "dedupRaw"

\* await client.extract(dateRange): it returns records or throws.
RunExtract ==
    /\ runPc = "extract"
    /\ \/ \E rawRecords \in RunExtractions :
            /\ ~extractEntry(runData.session).threw
            /\ runData' = [runData EXCEPT !.rawRecords = rawRecords]
            /\ effects' = Append(effects, Effect("extract", <<>>, rawRecords))
            /\ runPc' = RunAfterExtract(FALSE, rawRecords)
       \/ \E error \in IF extractEntry(runData.session).threw
                        THEN {extractEntry(runData.session).message}
                        ELSE Errors :
            /\ runData' = [runData EXCEPT !.error = error]
            /\ effects' = Append(effects, Effect("extractThrew", <<>>, <<>>))
            /\ runPc' = RunAfterExtract(TRUE, <<>>)
    /\ UNCHANGED <<runOpts, exitCode, runFrame>>

\* rawRecords.length === 0: client.close() and return.
RunEmptyReturn ==
    /\ runPc = "emptyReturn"
    /\ effects' = Append(effects, Effect("close", Closed(runData.session), <<>>))
    /\ runData' = [runData EXCEPT !.session = ClientClose(@)]
    /\ runPc' = "finally"
    /\ UNCHANGED <<runOpts, exitCode, runFrame>>

\* The local each call of the processing and output part is handed.
StageInputSkipsRecordDedup(stage, data) ==
    CASE stage = "deduplicateRawRecords" -> data.rawRecords
      [] stage = "filterRecords" -> data.deduped
      [] stage = "transformRecords" -> data.passed
      [] stage = "deduplicateCleanedSales" -> data.transformedSales
      [] stage = "deduplicateByOwnerAddress" -> data.transformedSales
      [] stage = "writeRawCsv" -> data.rawRecords
      [] OTHER -> data.cleanedSales

StageInput(stage, data) ==
    CASE stage = "deduplicateRawRecords" -> data.rawRecords
      [] stage = "filterRecords" -> data.deduped
      [] stage = "transformRecords" -> data.passed
      [] stage = "deduplicateCleanedSales" -> data.transformedSales
      [] stage = "deduplicateByOwnerAddress" -> data.dedupedByRecord
      [] stage = "writeRawCsv" -> data.rawRecords
      [] OTHER -> data.cleanedSales

RunDedupRaw ==
    /\ runPc = "dedupRaw"
    /\ LET in == StageInput("deduplicateRawRecords", runData)
           out == deduplicateRawRecords(in)
       IN /\ runData' = [runData EXCEPT !.deduped = out]
          /\ effects' = Append(effects, Effect("deduplicateRawRecords", in, out))
    /\ runPc' = "filter"
    /\ UNCHANGED <<runOpts, exitCode, runFrame>>

RunFilter ==
    /\ runPc = "filter"
    /\ LET in == StageInput("filterRecords", runData)
           out == filterRecords(in, config, dateRange, tz).passed
       IN /\ runData' = [runData EXCEPT !.passed = out]
          /\ effects' = Append(effects, Effect("filterRecords", in, out))
    /\ runPc' = "transform"
    /\ UNCHANGED <<runOpts, exitCode, runFrame>>

RunTransform ==
    /\ runPc = "transform"
    /\ LET in == StageInput("transformRecords", runData)
           out == transformRecords(in)
       IN /\ runData' = [runData EXCEPT !.transformedSales = out]
          /\ effects' = Append(effects, Effect("transformRecords", in, out))
    /\ runPc' = "dedupCleaned"
    /\ UNCHANGED <<runOpts, exitCode, runFrame>>

RunDedupCleaned ==
    /\ runPc = "dedupCleaned"
    /\ LET in == StageInput("deduplicateCleanedSales", runData)
           out == deduplicateCleanedSales(in)
       IN /\ runData' = [runData EXCEPT !.dedupedByRecord = out]
          /\ effects' = Append(effects, Effect("deduplicateCleanedSales", in, out))
    /\ runPc' = "dedupOwner"
    /\ UNCHANGED <<runOpts, exitCode, runFrame>>

RunDedupOwner ==
    /\ runPc = "dedupOwner"
    /\ LET in == StageInput("deduplicateByOwnerAddress", runData)
           out == deduplicateByOwnerAddress(in)
       IN /\ runData' = [runData EXCEPT !.cleanedSales = out]
          /\ effects' = Append(effects,
                               Effect("deduplicateByOwnerAddress", in, out))
    /\ runPc' = "write"
    /\ UNCHANGED <<runOpts, exitCode, runFrame>>

\* writeRawCsv, writeCleanedCsv, writeCleanedJson; writing may throw.
RunWriteOutputs ==
    /\ runPc = "write"
    /\ \/ /\ effects' = effects \o
                 <<Effect("writeRawCsv", StageInput("writeRawCsv", runData), <<>>),
                   Effect("writeCleanedCsv",
                          StageInput("writeCleanedCsv", runData), <<>>),
                   Effect("writeCleanedJson",
                          StageInput("writeCleanedJson", runData), <<>>)>>
          /\ runPc' = "upload"
          /\ runData' = runData
       \/ /\ effects' = effects
          /\ runPc' = "finally"
          /\ runData' = [runData EXCEPT !.error = "EACCES: permission denied"]
    /\ UNCHANGED <<runOpts, exitCode, runFrame>>

\* if (config.s3Bucket) await uploadOutputs(...): its errors are caught
\* per file.
RunUpload ==
    /\ runPc = "upload"
    /\ effects' = IF runOpts.s3Bucket
                  THEN Append(effects, Effect("uploadOutputs",
                                  StageInput("uploadOutputs", runData), <<>>))
                  ELSE effects
    /\ runPc' = "email"
    /\ UNCHANGED <<runOpts, runData, exitCode, runFrame>>

\* if (!options.dryRun) await sendReportEmail(...): it answers true or
\* false and never throws.
RunEmail ==
    /\ runPc = "email"
    /\ effects' = IF ~runOpts.dryRun
                  THEN Append(effects, Effect("sendReportEmail",
                                  StageInput("sendReportEmail", runData), <<>>))
                  ELSE effects
    /\ runPc' = "finally"
    /\ UNCHANGED <<runOpts, runData, exitCode, runFrame>>

\* finally { await client.close() }: then run returns, or the pending
\* error goes on to the caller.
RunFinally ==
    /\ runPc = "finally"
    /\ effects' = Append(effects, Effect("close", Closed(runData.session), <<>>))
    /\ runData' = [runData EXCEPT !.session = ClientClose(@)]
    /\ IF runData.error # ""
       THEN runPc' = "catch" /\ exitCode' = exitCode
       ELSE runPc' = "exited" /\ exitCode' = 0
    /\ UNCHANGED <<runOpts, runFrame>>

\* program.action's catch: logger.error('Fatal error'), process.exit(1).
RunFatal ==
    /\ runPc = "catch"
    /\ effects' = Append(effects, Effect("fatalError", <<>>, <<>>))
    /\ exitCode' = 1
    /\ runPc' = "exited"
    /\ UNCHANGED <<runOpts, runData, runFrame>>

NextRun ==
    \/ RunValidate
    \/ RunCreateClient
    \/ RunExtract
    \/ RunEmptyReturn
    \/ RunDedupRaw
    \/ RunFilter
    \/ RunTransform
    \/ RunDedupCleaned
    \/ RunDedupOwner
    \/ RunWriteOutputs
    \/ RunUpload
    \/ RunEmail
    \/ RunFinally
    \/ RunFatal

SpecRun == RunInit /\ [][NextRun]_vars

-----------------------------------------------------------------------------
(* Claims about filterRecords *)

\* The predicates, each on its own.
FailsDate(r) == DateCheck(r, dateRange, tz) # NoReason
FailsResidential(r) == ~isResidential(r)
FailsPrice(r) == parseSalePrice(r.sale_price) < config.minSalePrice
FailsInstrument(r) ==
    isDeniedInstrument(r.deed_instrument, config.instrumentDenylist)
FailsQualified(r) ==
    Trim(ToLowerCase(r.qualified_sale)) \in {"n", "no", "false", "0"}

FirstFailed(r) ==
    IF FailsDate(r) THEN "outsideDateRange"
    ELSE IF FailsResidential(r) THEN "nonResidential"
    ELSE IF FailsPrice(r) THEN "lowSalePrice"
    ELSE IF FailsInstrument(r) THEN "deniedInstrument"
    ELSE IF FailsQualified(r) THEN "qualifiedSaleFailed"
    ELSE NoReason

FailsNone(r) == FirstFailed(r) = NoReason

CountWhere(records, reason) ==
    Cardinality({i \in 1..Len(records) : FirstFailed(records[i]) = reason})

\* C4: every rejected record is counted once, under the first predicate it
\* fails in the order outsideDateRange, nonResidential, lowSalePrice,
\* deniedInstrument, qualifiedSaleFailed; a record that fails none is passed.
C4_FirstReasonWins ==
    fpc = "done" =>
        /\ \A k \in ReasonNames \ {"other"} :
              fResult.reasons[k] = CountWhere(fInput, k)
        /\ fResult.reasons["other"] = 0
        /\ fResult.passed = SelectSeq(fInput, FailsNone)

\* a record that fails the date predicate and a later one is counted under
\* the date only
C4_Witness ==
    /\ fpc = "done"
    /\ Len(fInput) = 1
    /\ FailsDate(fInput[1]) /\ FailsResidential(fInput[1]) /\ FailsPrice(fInput[1])
    /\ fResult.reasons["outsideDateRange"] = 1
    /\ fResult.reasons["nonResidential"] = 0

\* the elements of s at the positions mask marks
RECURSIVE PickMasked(_, _, _)
PickMasked(s, mask, want) ==
    IF s = <<>> THEN <<>>
    ELSE IF mask[1] = want
         THEN <<s[1]>> \o PickMasked(Tail(s), Tail(mask), want)
         ELSE PickMasked(Tail(s), Tail(mask), want)

RECURSIVE SumReasons(_)
SumReasons(names) ==
    IF names = {} THEN 0
    ELSE LET k == CHOOSE x \in names : TRUE
         IN fResult.reasons[k] + SumReasons(names \ {k})

\* C5: passed and filtered partition the input, each in input order, and the
\* per-reason counts add up to filtered.length.
C5_Partition ==
    fpc = "done" =>
        /\ \E mask \in [1..Len(fInput) -> BOOLEAN] :
              /\ fResult.passed = PickMasked(fInput, mask, TRUE)
              /\ fResult.filtered = PickMasked(fInput, mask, FALSE)
        /\ Len(fResult.passed) + Len(fResult.filtered) = Len(fInput)
        /\ SumReasons(ReasonNames) = Len(fResult.filtered)

C5_Witness ==
    /\ fpc = "done"
    /\ Len(fInput) = MaxRecords
    /\ Len(fResult.passed) >= 1
    /\ Len(fResult.filtered) >= 1

\* the sale date is a date of the week of the range
DateInsideRange(dateStr) ==
    /\ parseSaleDate(dateStr).kind = "iso"
    /\ parseSaleDate(dateStr).day \in RangeMonday..(RangeMonday + 6)

\* C6: a record gets past the date predicate only if its sale_date parses to
\* a date inside the inclusive range; a record whose sale_date is empty or
\* is no date is rejected as outsideDateRange.
C6_DatePredicate ==
    fpc = "done" =>
        /\ \A i \in 1..Len(fResult.passed) :
              DateInsideRange(fResult.passed[i].sale_date)
        /\ fResult.reasons["outsideDateRange"] =
              Cardinality({i \in 1..Len(fInput) :
                              ~DateInsideRange(fInput[i].sale_date)})

-----------------------------------------------------------------------------
(* Claims about TpadClient.extract *)

CountEqual(seq, x) == Cardinality({i \in 1..Len(seq) : seq[i] = x})

RecordsOf(records, parcelId) ==
    LET OfParcel(r) == r.parcel_id = parcelId
    IN SelectSeq(records, OfParcel)

RECURSIVE Flatten(_)
Flatten(pages) ==
    IF pages = <<>> THEN <<>> ELSE Head(pages) \o Flatten(Tail(pages))

\* The list-row stub of a parcel: the record of its first row on the site.
StubOf(parcelId) ==
    LET rows == Flatten(site.pages)
        first == CHOOSE i \in 1..Len(rows) :
                    /\ rows[i].parcelId = parcelId
                    /\ \A k \in 1..(i - 1) : rows[k].parcelId # parcelId
    IN searchResultToRawRecord(rows[first], "084")

FetchedIds == {result.parcelDetails[k].parcel_id : k \in 1..Len(result.parcelDetails)}

\* C1: for every parcel whose detail fetch succeeded, the returned records
\* hold one enriched record per sale dated inside the range, carrying that
\* sale's price, instrument and qualification, and none for a sale dated
\* outside it.
C1_OneRecordPerInRangeSale ==
    pc = "returned" =>
        \A k \in 1..Len(result.parcelDetails) :
            LET d == result.parcelDetails[k]
            IN \A i \in 1..Len(d.sales) :
                  CountEqual(result.rawRecords,
                             parcelDetailsToRawRecord(d, d.sales[i]))
                  = IF DateInsideRange(d.sales[i].sale_date)
                    THEN CountEqual(d.sales, d.sales[i])
                    ELSE 0

\* C2: a parcel whose detail page lists no sales is returned as its list-row
\* stub with only source_url replaced by the resolved detail URL; a parcel
\* whose fetch failed is returned as its list-row stub unchanged.
C2_FallbackStubs ==
    pc = "returned" =>
        \A e \in SeqRange(parcelUrls) :
            /\ (\E k \in 1..Len(result.parcelDetails) :
                    /\ result.parcelDetails[k].parcel_id = e[1]
                    /\ result.parcelDetails[k].sales = <<>>)
               => RecordsOf(result.rawRecords, e[1])
                    = <<[StubOf(e[1]) EXCEPT !.source_url = e[2]]>>
            /\ e[1] \notin FetchedIds
               => RecordsOf(result.rawRecords, e[1]) = <<StubOf(e[1])>>

\* one parcel without sales whose stub URL differs from the resolved URL,
\* and one parcel whose fetch failed
C2_Witness ==
    /\ pc = "returned"
    /\ \E e \in SeqRange(parcelUrls) :
          /\ e[1] \in FetchedIds
          /\ StubOf(e[1]).source_url # e[2]
          /\ \A k \in 1..Len(result.parcelDetails) :
                result.parcelDetails[k].sales = <<>>
    /\ \E e \in SeqRange(parcelUrls) : e[1] \notin FetchedIds

\* C3: when every detail fetch failed, the returned records are the stubs the
\* walker collected: each of them is there and no parcel is missing.
C3_AllFailedKeepsEveryStub ==
    (pc = "returned" /\ log # <<>> /\ result.parcelDetails = <<>>) =>
        /\ SeqRange(result.rawRecords) = SeqRange(allResults)
        /\ {allResults[i].parcel_id : i \in 1..Len(allResults)}
             \subseteq {result.rawRecords[i].parcel_id :
                           i \in 1..Len(result.rawRecords)}

\* C7: a detail fetch falls back to the stub after a transient network error
\* only when that error ended the third attempt (attempt 2 of 0..2).
C7_TransientDetailErrorRetried ==
    [][\A j \in 1..Len(fetch) :
          (/\ fetch[j].status = "running"
           /\ Len(fetch') = Len(fetch)
           /\ fetch'[j].status \in {"null", "rejected"}
           /\ isNetworkRetryable(fetch'[j].error))
          => fetch[j].attempt = DetailMaxRetries]_vars

AdvanceFailed ==
    \E i \in 1..Len(log) : log[i][1] = "advance" /\ ~log[i][2]

\* C8: after an error while navigating result pages the run does not go on;
\* extract throws.
C8_NavigationErrorFatal == AdvanceFailed => pc = "thrown"

IsWalkEntry(entry) == entry[1] \in {"extract", "hasNext", "advance"}

ExtractedPages ==
    LET IsExtract(entry) == entry[1] = "extract"
        entries == SelectSeq(log, IsExtract)
    IN [i \in 1..Len(entries) |-> entries[i][2]]

\* C9: the walk is sequential.  An advance follows a hasNextPage that said
\* yes, which follows the extraction of the page; hasNextPage says yes
\* exactly while a further page exists (a disabled or absent next button is
\* a no); a no ends the walk; and when no advance failed, pages 1..P were
\* extracted, once each and in order, and totalPages = P.
C9_SequentialWalk ==
    /\ \A i \in 1..Len(log) :
          /\ log[i][1] = "advance" =>
                /\ i >= 3
                /\ log[i - 1][1] = "hasNext" /\ log[i - 1][3]
                /\ log[i - 2][1] = "extract"
          /\ log[i][1] = "hasNext" =>
                /\ log[i][3] <=> (log[i][2] < Len(site.pages))
                /\ i >= 2 /\ log[i - 1] = <<"extract", log[i][2]>>
                /\ ~log[i][3] =>
                      \A k \in (i + 1)..Len(log) : ~IsWalkEntry(log[k])
    /\ (pc \in {"batch", "await", "returned"} /\ log # <<>> /\ ~AdvanceFailed) =>
          /\ ExtractedPages = [i \in 1..Len(site.pages) |-> i]
          /\ pageNum = Len(site.pages)
    /\ (pc = "returned" /\ log # <<>> /\ ~AdvanceFailed) =>
          result.totalPages = Len(site.pages)

C9_Witness ==
    /\ pc = "returned"
    /\ ~AdvanceFailed
    /\ Len(site.pages) = MaxPages
    /\ result.totalPages = MaxPages
    /\ ExtractedPages = [i \in 1..MaxPages |-> i]

\* C10: when the search has no results, extract returns the empty result
\* with totalParcels = 0 and totalPages = 0, and extracts no rows, checks
\* for and advances to no next page, and fetches no detail page.
C10_ZeroResults ==
    ~hasResults(site) =>
        /\ pc \in {"navigate", "search", "hasResults", "returned", "thrown"}
        /\ log = <<>>
        /\ fetch = <<>>
        /\ allResults = <<>>
        /\ pc = "returned" => result = EmptyExtraction

C10_Witness ==
    /\ pc = "returned"
    /\ ~hasResults(site)
    /\ result = EmptyExtraction
    /\ log = <<>>

InFlight == Cardinality({j \in 1..Len(fetch) : fetch[j].status = "running"})

\* C11: during enrichment at most config.concurrency detail fetches are in
\* flight (each holds at most one open detail page); the fetches that exist
\* are those of one batch, a run of at most config.concurrency consecutive
\* entries of the URL map starting at a multiple of config.concurrency, so
\* no fetch of a batch exists while one of the batch before is unsettled.
C11_BoundedBatches ==
    /\ InFlight <= config.concurrency
    /\ Len(fetch) <= config.concurrency
    /\ fetch # <<>> =>
          /\ pc = "await"
          /\ batchStart % config.concurrency = 0
          /\ batchStart + Len(fetch) <= Len(parcelUrls)
          /\ \A j \in 1..Len(fetch) :
                <<fetch[j].parcelId, fetch[j].url>> = parcelUrls[batchStart + j]
          /\ Len(fetch) < config.concurrency =>
                batchStart + Len(fetch) = Len(parcelUrls)
    /\ pc = "returned" /\ log # <<>> => batchStart >= Len(parcelUrls)

\* the second batch of a run with one fetch at a time is in flight
C11_Witness ==
    /\ pc = "await"
    /\ config.concurrency = 1
    /\ batchStart = 1
    /\ Len(parcelUrls) = 2
    /\ InFlight = 1

\* C12: any two calls of the rate limiter return (any two fetches start) at
\* instants at least requestDelayMs apart.
C12_ReleasesSpaced ==
    \A i, j \in 1..Len(releases) :
        i < j => releases[j] - releases[i] >= DelayTicks

-----------------------------------------------------------------------------
(* Claims about withRetry *)

RetryCalls ==
    LET IsCall(e) == e.op = "call"
    IN SelectSeq(rLog, IsCall)

\* C13: withRetry calls fn at most maxRetries + 1 times; a call that
\* succeeds is the last thing withRetry does and its value is returned; when
\* withRetry throws, every call failed and the error thrown is the last
\* call's; calls and sleeps alternate, one sleep between two consecutive
\* calls and none after the last.
C13_RetryBudget ==
    /\ Len(RetryCalls) <= rOpts.maxRetries + 1
    /\ \A i \in 1..Len(rLog) :
          /\ rLog[i].op = (IF i % 2 = 1 THEN "call" ELSE "sleep")
          /\ rLog[i].out = "ok" =>
                /\ i = Len(rLog)
                /\ rpc = "returned"
                /\ rResult = [value |-> rLog[i].value]
    /\ rpc = "returned" => rLog[Len(rLog)].out = "ok"
    /\ rpc = "thrown" =>
          /\ rLog[Len(rLog)].op = "call"
          /\ \A i \in 1..Len(RetryCalls) : RetryCalls[i].out = "error"
          /\ rResult = [error |-> rLog[Len(rLog)].value]
    /\ (rpc # "returned" /\ Len(RetryCalls) = rOpts.maxRetries + 1) =>
          rpc = "thrown"

\* the whole budget is used and the last error thrown
C13_Witness ==
    /\ rpc = "thrown"
    /\ rOpts.maxRetries = 2
    /\ Len(RetryCalls) = 3
    /\ Len(rLog) = 5
    /\ rLog[1].value # rLog[5].value

RetryableTruth ==
    {"page.goto: Timeout 30000ms exceeded.", "read ECONNRESET",
     "net::ERR_NETWORK_CHANGED", "Protocol error: Target closed."}

\* C14: with isRetryable given, a call that fails with an error it rejects
\* is the last thing withRetry does: that error is thrown, without a sleep
\* or a further call, whatever is left of the budget; and isNetworkRetryable
\* accepts an error exactly when its message holds one of the fixed
\* substrings, in any letter case.
C14_NonRetryableThrowsAtOnce ==
    /\ \A i \in 1..Len(rLog) :
          (/\ rLog[i].out = "error"
           /\ rOpts.isRetryable = "network"
           /\ rLog[i].value \notin RetryableTruth)
          => /\ i = Len(rLog)
             /\ rpc = "thrown"
             /\ rResult = [error |-> rLog[i].value]
    /\ \A e \in RetryErrors : isNetworkRetryable(e) <=> e \in RetryableTruth

\* budget left, first call fails with an error that is no network error
C14_Witness ==
    /\ rpc = "thrown"
    /\ rOpts = [maxRetries |-> MaxRetryBudget, isRetryable |-> "network"]
    /\ Len(rLog) = 1
    /\ rLog[1].value = "Request timed out"

-----------------------------------------------------------------------------
(* Claims about the dedup passes *)

\* The elements of s at the positions in keep, in order.
RECURSIVE PickAt(_, _, _)
PickAt(s, i, keep) ==
    IF i > Len(s) THEN <<>>
    ELSE (IF i \in keep THEN <<s[i]>> ELSE <<>>) \o PickAt(s, i + 1, keep)

\* What a raw record says, whatever its spelling: the parcel, the day and
\* the amount.
SaleIdentity(r) ==
    <<IF r.parcel_id \in {"067 05308 000", "067    05308 000",
                          " 067 05308 000 "}
      THEN "067 05308 000" ELSE r.parcel_id,
      IF r.sale_date.kind \in {"mdy", "iso"}
      THEN <<"day", r.sale_date.day>> ELSE <<r.sale_date.kind>>,
      IF r.sale_price.kind \in {"currency", "plain"}
      THEN r.sale_price.amount ELSE 0>>

\* C15: deduplicateRawRecords returns, in input order, the first record of
\* each key (parcel id up to spacing, sale date and sale price up to
\* formatting): the keys of the output are pairwise distinct and every key
\* of the input occurs in it.
C15_RawDedupFirstWins ==
    (dInput # <<>> /\ dInput.pass = "raw" /\ dpc # "ready") =>
        LET items == dInput.items
            first == {i \in 1..Len(items) :
                        \A k \in 1..(i - 1) :
                            SaleIdentity(items[k]) # SaleIdentity(items[i])}
        IN /\ dOutput = PickAt(items, 1, first)
           /\ \A i, j \in 1..Len(dOutput) :
                 i # j => SaleIdentity(dOutput[i]) # SaleIdentity(dOutput[j])
           /\ \A i \in 1..Len(items) : \E j \in 1..Len(dOutput) :
                 SaleIdentity(dOutput[j]) = SaleIdentity(items[i])

\* a record, the same sale spelled otherwise, and another sale
C15_Witness ==
    /\ dpc = "done"
    /\ dInput.pass = "raw"
    /\ Len(dInput.items) = 3
    /\ dInput.items[1].parcel_id # dInput.items[2].parcel_id
    /\ dInput.items[1].sale_date # dInput.items[2].sale_date
    /\ dInput.items[1].sale_price # dInput.items[2].sale_price
    /\ dOutput = <<dInput.items[1], dInput.items[3]>>

SharesAKey(a, b) ==
    \/ generateCleanedSaleKey(a) = generateCleanedSaleKey(b)
    \/ generateAddressKey(a) = generateAddressKey(b)

\* The positions 1..n of items that are kept: a position is kept exactly
\* when it shares no key with an earlier kept one.
RECURSIVE KeptUpTo(_, _)
KeptUpTo(items, n) ==
    IF n = 0 THEN {}
    ELSE LET before == KeptUpTo(items, n - 1)
         IN IF \E k \in before : SharesAKey(items[k], items[n])
            THEN before ELSE before \cup {n}

\* C16: deduplicateCleanedSales applied to its own output returns that
\* output; it drops a record exactly when the record's primary key or
\* address key is that of an earlier kept record; no two records of the
\* output share either key.
C16_CleanedDedupIdempotent ==
    (dInput # <<>> /\ dInput.pass = "cleaned") =>
        /\ dpc = "again" => dTwice = dOutput
        /\ dpc # "ready" =>
              /\ dOutput = PickAt(dInput.items, 1,
                                  KeptUpTo(dInput.items, Len(dInput.items)))
              /\ \A i, j \in 1..Len(dOutput) :
                    i # j => ~SharesAKey(dOutput[i], dOutput[j])

\* three different records; the second falls to the primary key, the third
\* to the address key alone
C16_Witness ==
    /\ dpc = "again"
    /\ dInput.pass = "cleaned"
    /\ Len(dInput.items) = 3
    /\ dOutput = <<dInput.items[1]>>
    /\ dTwice = dOutput
    /\ dInput.items[2] # dInput.items[1]
    /\ generateCleanedSaleKey(dInput.items[2])
         = generateCleanedSaleKey(dInput.items[1])
    /\ generateCleanedSaleKey(dInput.items[3])
         # generateCleanedSaleKey(dInput.items[1])

EmptyOwnerAddress == <<"", "">>

\* C17: deduplicateByOwnerAddress returns one record for each owner+address
\* key of its input that is not empty: the input record of that key with the
\* highest sale_price, the earliest of them when several have it; a record
\* without owner and without address is not returned.
C17_OwnerAddressKeepsHighest ==
    (dInput # <<>> /\ dInput.pass = "ownerAddress" /\ dpc # "ready") =>
        LET items == dInput.items
            keys == {ownerAddressKey(items[i]) : i \in 1..Len(items)}
                      \ {EmptyOwnerAddress}
            Best(k) == CHOOSE i \in 1..Len(items) :
                          /\ ownerAddressKey(items[i]) = k
                          /\ \A m \in 1..Len(items) :
                                ownerAddressKey(items[m]) = k =>
                                   \/ items[m].sale_price < items[i].sale_price
                                   \/ /\ items[m].sale_price = items[i].sale_price
                                      /\ m >= i
        IN /\ Len(dOutput) = Cardinality(keys)
           /\ \A k \in keys : \E j \in 1..Len(dOutput) : dOutput[j] = items[Best(k)]
           /\ \A j \in 1..Len(dOutput) :
                 ownerAddressKey(dOutput[j]) # EmptyOwnerAddress

\* a cheaper and a dearer record of one owner and address, and a record
\* with neither
C17_Witness ==
    /\ dpc = "done"
    /\ dInput.pass = "ownerAddress"
    /\ Len(dInput.items) = 3
    /\ ownerAddressKey(dInput.items[1]) = ownerAddressKey(dInput.items[2])
    /\ dInput.items[1].sale_price < dInput.items[2].sale_price
    /\ ownerAddressKey(dInput.items[3]) = EmptyOwnerAddress
    /\ dOutput = <<dInput.items[2]>>


-----------------------------------------------------------------------------
(* Claims about run *)

StageOrder ==
    <<"deduplicateRawRecords", "filterRecords", "transformRecords",
      "deduplicateCleanedSales", "deduplicateByOwnerAddress">>

StageOps == {StageOrder[k] : k \in 1..Len(StageOrder)}

OutputOps ==
    {"writeRawCsv", "writeCleanedCsv", "writeCleanedJson", "uploadOutputs",
     "sendReportEmail"}

CleanedOutputOps == OutputOps \ {"writeRawCsv"}

IsStageEffect(e) == e.op \in StageOps

StageEffects == SelectSeq(effects, IsStageEffect)

Positions(ops) == {i \in 1..Len(effects) : effects[i].op \in ops}

\* C18: in a run that has records the stages run in the order raw dedup,
\* filter, transform, cleaned-record dedup, owner+address dedup, each at
\* most once; the first consumes what extract returned and every later one
\* exactly what the stage before it returned, each returns what its
\* function computes from that, and any output follows all five stages,
\* the cleaned outputs carrying what owner+address dedup returned.
C18_StageOrder ==
    LET done == StageEffects
    IN /\ Len(done) <= Len(StageOrder)
       /\ \A k \in 1..Len(done) :
            /\ done[k].op = StageOrder[k]
            /\ done[k].in = IF k = 1 THEN runData.rawRecords
                            ELSE done[k - 1].out
       /\ Len(done) > 0 =>
            /\ Len(runData.rawRecords) > 0
            /\ effects[1] = Effect("extract", <<>>, runData.rawRecords)
            /\ \A k \in 1..Len(done) : effects[k + 1] = done[k]
       /\ Len(done) >= 1 => done[1].out = deduplicateRawRecords(done[1].in)
       /\ Len(done) >= 2 =>
            done[2].out = filterRecords(done[2].in, config, dateRange, tz).passed
       /\ Len(done) >= 3 => done[3].out = transformRecords(done[3].in)
       /\ Len(done) >= 4 => done[4].out = deduplicateCleanedSales(done[4].in)
       /\ Len(done) >= 5 => done[5].out = deduplicateByOwnerAddress(done[5].in)
       /\ \A i \in Positions(OutputOps) :
            /\ Len(done) = Len(StageOrder)
            /\ i > Len(StageOrder) + 1
            /\ effects[i].op \in CleanedOutputOps =>
                 effects[i].in = done[Len(StageOrder)].out

\* A run whose cleaned-record dedup dropped a sale that owner+address dedup
\* alone would have kept, and that wrote its outputs.
C18_Witness ==
    /\ Len(StageEffects) = Len(StageOrder)
    /\ Len(StageEffects[4].out) < Len(StageEffects[4].in)
    /\ deduplicateByOwnerAddress(StageEffects[4].in) # StageEffects[5].out
    /\ Positions({"writeCleanedCsv"}) # {}

ExtractThrew == Positions({"extractThrew"}) # {}

\* C19: every write, upload and email comes after extract has returned
\* its records; when extract threw there is no write, no upload and no
\* email, and the run ends with the fatal error reported and exit code 1.
C19_OutputsOnlyAfterExtract ==
    /\ \A i \in Positions(OutputOps) :
         \E j \in 1..(i - 1) : effects[j].op = "extract"
    /\ ExtractThrew =>
         /\ Positions(OutputOps) = {}
         /\ Positions(StageOps) = {}
         /\ runData.error # ""
         /\ runPc = "exited" =>
              /\ exitCode = 1
              /\ effects[Len(effects)].op = "fatalError"

\* A run that ended after extract threw.
C19_Witness ==
    /\ ExtractThrew
    /\ runPc = "exited"
    /\ effects[Len(effects)].op = "fatalError"

ExtractReturnedEmpty == Positions({"extract"}) # {} /\ Len(effects[1].out) = 0

\* C20: when extract returned no record the run does no dedup, filter or
\* transform, writes no file, uploads nothing and sends no email, reports
\* no error, and ends with exit code 0.
C20_EmptyShortCircuit ==
    ExtractReturnedEmpty =>
        /\ Positions(StageOps \cup OutputOps \cup {"fatalError"}) = {}
        /\ runData.error = ""
        /\ runPc \in {"emptyReturn", "finally", "exited"}
        /\ runPc = "exited" => exitCode = 0

\* A run that ended after extract returned no record.
C20_Witness ==
    /\ ExtractReturnedEmpty
    /\ runPc = "exited"
    /\ exitCode = 0


-----------------------------------------------------------------------------
(* Claims about transformRecord *)

\* C21: the CleanedSale transformRecord returns has a sale_price that is a
\* non-negative integer, a sale_date that is empty or YYYY-MM-DD, and
\* owner_name and owner_mailing_address that are null, never '', when
\* absent.
C21_CleanedSaleShape ==
    callPc = "done" =>
        /\ callResult.sale_price \in Nat
        /\ callResult.sale_date.kind \in {"empty", "iso"}
        /\ callResult.owner_name # ""
        /\ TrimText(callArg.owner_name) = "" => callResult.owner_name = Null
        /\ callResult.owner_mailing_address = Null


-----------------------------------------------------------------------------
(* Claims about the week ranges *)

\* The Monday of the week (Monday to Sunday) a calendar day lies in.
MondayOfWeek(day) == CHOOSE m \in (day - 6)..day : m % 7 = 1

WeekFrom(monday, zone) ==
    [start |-> DateAt(LocalMidnight(monday, zone)),
     end |-> DateAt(LocalMidnight(monday + 6, zone) + MsPerDay - 1),
     label |-> <<"Week of", DateText("iso", monday)>>]

\* C22: getPreviousWeekRange gives the week from the Monday seven days
\* before the Monday of the reference date's week to the Sunday six days
\* after that start, whatever weekday the reference date is;
\* getWeekRangeFromMonday gives the week starting at its argument when that
\* is a Monday and throws otherwise.
C22_MondayToSunday ==
    callPc = "done" =>
        IF callArg.fn = "getPreviousWeekRange"
        THEN callResult =
                 WeekFrom(MondayOfWeek(LocalDay(callArg.arg, tz)) - 7, tz)
        ELSE IF callArg.arg.kind = "iso" /\ callArg.arg.day % 7 = 1
             THEN callResult = WeekFrom(callArg.arg.day, tz)
             ELSE IsThrown(callResult)

\* getPreviousWeekRange was called on a Sunday whose UTC day is already
\* Monday.
C22_Witness ==
    /\ callPc = "done"
    /\ callArg.fn = "getPreviousWeekRange"
    /\ LocalDay(callArg.arg, tz) % 7 = 0
    /\ callArg.arg.ms \div MsPerDay > LocalDay(callArg.arg, tz)


-----------------------------------------------------------------------------
(* Claims about getSalesStats *)

PriceAt(i) == callArg[i].sale_price

RECURSIVE SumOfPrices(_)
SumOfPrices(n) == IF n = 0 THEN 0 ELSE SumOfPrices(n - 1) + PriceAt(n)

\* The k-th smallest price of the list, counted with repetitions.
KthSmallest(k) ==
    CHOOSE p \in {PriceAt(i) : i \in 1..Len(callArg)} :
        /\ Cardinality({i \in 1..Len(callArg) : PriceAt(i) < p}) < k
        /\ Cardinality({i \in 1..Len(callArg) : PriceAt(i) <= p}) >= k

SameRatio(a, b) == a.num * b.den = b.num * a.den

\* C23: for a non-empty list getSalesStats gives the number of sales, the
\* sum of the prices, the sum over the number, the smallest and the largest
\* price, and the middle price of the sorted prices (the mean of the two
\* middle ones for an even number); for the empty list every field is the
\* literal 0.
C23_SalesStats ==
    callPc = "done" =>
        LET n == Len(callArg)
        IN IF n = 0
           THEN callResult = [count |-> 0, totalValue |-> 0,
                              averagePrice |-> Ratio(0, 1),
                              medianPrice |-> Ratio(0, 1),
                              minPrice |-> 0, maxPrice |-> 0]
           ELSE /\ callResult.count = n
                /\ callResult.totalValue = SumOfPrices(n)
                /\ callResult.averagePrice.den # 0
                /\ SameRatio(callResult.averagePrice, Ratio(SumOfPrices(n), n))
                /\ callResult.minPrice = KthSmallest(1)
                /\ callResult.maxPrice = KthSmallest(n)
                /\ callResult.medianPrice.den # 0
                /\ SameRatio(callResult.medianPrice,
                             IF n % 2 = 0
                             THEN Ratio(KthSmallest(n \div 2)
                                        + KthSmallest(n \div 2 + 1), 2)
                             ELSE Ratio(KthSmallest((n + 1) \div 2), 1))

\* Statistics of an even number of sales given out of price order, whose
\* two middle prices differ.
C23_Witness ==
    /\ callPc = "done"
    /\ Len(callArg) = 2
    /\ PriceAt(1) > PriceAt(2)
    /\ callResult.medianPrice.den = 2


-----------------------------------------------------------------------------
(* Claims about the reconciliation of the detail fetches *)

DetailsOf(parcelId) ==
    result.parcelDetails[CHOOSE k \in 1..Len(result.parcelDetails) :
                            result.parcelDetails[k].parcel_id = parcelId]

\* What one URL-map entry contributes, from the outcome of its fetch alone.
ContributionOf(entry) ==
    IF entry[1] \notin FetchedIds THEN <<StubOf(entry[1])>>
    ELSE LET details == DetailsOf(entry[1])
             InRange(sale) ==
                 isSaleInDateRange(sale.sale_date, dateRange.start, dateRange.end)
             kept == SelectSeq(details.sales, InRange)
         IN IF details.sales = <<>>
            THEN <<[StubOf(entry[1]) EXCEPT !.source_url = details.source_url]>>
            ELSE [i \in 1..Len(kept) |-> parcelDetailsToRawRecord(details, kept[i])]

SettledIds ==
    LET IsSettled(entry) == entry[1] = "settled"
        settled == SelectSeq(log, IsSettled)
    IN [k \in 1..Len(settled) |-> settled[k][2]]

\* C24: the records extract returns are the contributions of the URL-map
\* entries in the order of the map, each decided by the outcome of its
\* fetch (or the collected stubs when there is no contribution at all),
\* whatever the order in which the fetches settled.
C24_CompletionOrderIrrelevant ==
    (pc = "returned" /\ log # <<>>) =>
        result.rawRecords =
            FinalRecords(Flatten([k \in 1..Len(parcelUrls) |->
                                     ContributionOf(parcelUrls[k])]),
                         allResults)

\* Two fetches of one batch settled in the reverse of their order in the
\* URL map, and both contributed a record.
C24_Witness ==
    /\ pc = "returned"
    /\ Len(parcelUrls) = 2
    /\ config.concurrency >= 2
    /\ SettledIds = <<parcelUrls[2][1], parcelUrls[1][1]>>
    /\ Len(result.rawRecords) = 2
    /\ result.rawRecords[1].parcel_id = parcelUrls[1][1]
    /\ result.rawRecords[2].parcel_id = parcelUrls[2][1]

\* C25: every parcel id of the URL map has at least one record among the
\* records extract returns, whatever its detail fetch gave: sales inside
\* the range, only sales outside it, no sales, or a failure.
C25_EveryParcelRepresented ==
    (pc = "returned" /\ log # <<>>) =>
        \A k \in 1..Len(parcelUrls) :
            RecordsOf(result.rawRecords, parcelUrls[k][1]) # <<>>


-----------------------------------------------------------------------------
(* Claims about the two in-range tests *)

\* C26: isSaleInDateRange and isDateInRange on the parsed date give the
\* same answer for every sale date in every time zone, and both accept a
\* sale dated on the first or on the last day of the range.
C26_InRangeTestsAgree ==
    callPc = "done" =>
        /\ callResult.enrichment = callResult.filter
        /\ (/\ callArg.kind \in {"mdy", "iso"}
            /\ callArg.day \in {RangeMonday, RangeMonday + 6})
           => callResult.enrichment /\ callResult.filter


-----------------------------------------------------------------------------
(* Claims about the page loop *)

\* C27: the page loop never collects the rows of one result page twice,
\* also when an advance fails, and the totalPages extract returns is the
\* number of distinct pages whose rows were collected.
C27_NoPageTwice ==
    /\ \A i, k \in 1..Len(ExtractedPages) :
          ExtractedPages[i] = ExtractedPages[k] => i = k
    /\ (pc = "returned" /\ log # <<>>) =>
          result.totalPages = Cardinality(SeqRange(ExtractedPages))


-----------------------------------------------------------------------------
(* Claims about the batch loop under every configuration *)

StartedBatches ==
    LET IsDetails(entry) == entry[1] = "details"
        starts == SelectSeq(log, IsDetails)
    IN [k \in 1..Len(starts) |-> starts[k][2]]

-----------------------------------------------------------------------------
(* Claims about fallback stubs and the filter *)

\* The record was made from a sale row of a detail page that was fetched.
FromFetchedSale(record) ==
    \E k \in 1..Len(result.parcelDetails) :
        \E i \in 1..Len(result.parcelDetails[k].sales) :
            record = parcelDetailsToRawRecord(result.parcelDetails[k],
                                              result.parcelDetails[k].sales[i])

IsStub(record) == record.sale_price = EmptyPrice /\ ~FromFetchedSale(record)

\* C29: with a minimum sale price of at least 1, no fallback stub among the
\* records extract returned passes filterRecords: every record that passes
\* was made from a sale row of a fetched detail page.
C29_NoStubPasses ==
    (fpc = "done" /\ config.minSalePrice >= 1) =>
        \A i \in 1..Len(fResult.passed) :
            /\ ~IsStub(fResult.passed[i])
            /\ FromFetchedSale(fResult.passed[i])

\* The filter was handed a stub of a failed fetch and a record of a sale
\* row, and let the latter pass.
C29_Witness ==
    /\ fpc = "done"
    /\ config.minSalePrice = 1
    /\ \E i \in 1..Len(fInput) : IsStub(fInput[i])
    /\ Len(fResult.passed) > 0


-----------------------------------------------------------------------------
(* Claims about the browser session *)

CloseCalls == Positions({"close"})

\* C30: when run has ended after the client was created, whatever the path,
\* the client has been closed and no page, context or browser is left; a
\* close after the first finds nothing to close; and extract on a client
\* without a page throws 'Client not initialized' as its first step.
C30_SessionClosed ==
    /\ (runPc = "exited" /\ runData # <<>> /\ runData.session.client) =>
          /\ CloseCalls # {}
          /\ runData.session = [NoSession EXCEPT !.client = TRUE]
    /\ \A i, k \in CloseCalls : i < k => effects[k].in = <<>>
    /\ (runData # <<>> /\ ~runData.session.page) =>
          extractEntry(runData.session) =
              Thrown("Client not initialized. Call initialize() first.")

\* A run that found no records: the client was closed before the return
\* and again in the finally block.
C30_Witness ==
    /\ runPc = "exited"
    /\ exitCode = 0
    /\ Cardinality(CloseCalls) = 2
    /\ \E i \in CloseCalls : effects[i].in = <<"context", "browser">>

=============================================================================
